---- MODULE Spec2Model ----
(***************************************************************************)
(* A model of WebglGraphicsDevice (src/graphics/webgl/                     *)
(* webgl-graphics-device.js): the render-state cache, the pass lifecycle   *)
(* and the context loss / restore handlers, together with the state of the *)
(* native WebGL context the device drives.                                 *)
(*                                                                         *)
(* A machine value m is a record [dev, gl, res, log]:                      *)
(*   dev  the fields of the device object;                                 *)
(*   gl   the state of the native context (what it would report);          *)
(*   res  the engine resources (shaders, buffers, render targets);         *)
(*   log  the effects of the operation in progress, in program order:      *)
(*        native calls <<"gl", name, args...>>, notifications              *)
(*        <<"loseContext", kind, id>>, events <<"fire", name>>,            *)
(*        diagnostics <<"assert", what>> and <<"set", field, value>>.      *)
(* Every method of the device is an operator from machine values to        *)
(* machine values, so that a method that calls other methods is the        *)
(* composition the code performs.                                          *)
(***************************************************************************)
EXTENDS Integers, Sequences, FiniteSets, TLC

VARIABLES dev, gl, res, log, ref, lastCall, hist, env

vars == <<dev, gl, res, log, ref, lastCall, hist, env>>

(***************************************************************************)
(* Bounds of the model.                                                    *)
(***************************************************************************)
\* calls explored from construction in the setter specification
MaxCalls == 3
\* calls explored from construction in the pass and context-loss specifications
MaxOps == 5
\* width and height of the canvas' drawing buffer
CanvasSize == 2

(***************************************************************************)
(* Engine enums (graphics/constants.js), as the translation tables of the  *)
(* constructor index them.                                                 *)
(***************************************************************************)
BLENDMODE_ZERO == 0
BLENDMODE_ONE == 1
BLENDMODE_SRC_ALPHA == 6
BLENDEQUATION_ADD == 0
BLENDEQUATION_SUBTRACT == 1
BLENDEQUATION_MIN == 3
CULLFACE_NONE == 0
CULLFACE_BACK == 1
CULLFACE_FRONT == 2
CULLFACE_FRONTANDBACK == 3
FUNC_LESS == 1
FUNC_LESSEQUAL == 3
FUNC_ALWAYS == 7
STENCILOP_KEEP == 0
STENCILOP_REPLACE == 2
CLEARFLAG_COLOR == 1
CLEARFLAG_DEPTH == 2
CLEARFLAG_STENCIL == 4
FILTER_NEAREST == 0
FILTER_LINEAR == 1
FILTER_NEAREST_MIPMAP_NEAREST == 2
FILTER_NEAREST_MIPMAP_LINEAR == 3
FILTER_LINEAR_MIPMAP_NEAREST == 4
FILTER_LINEAR_MIPMAP_LINEAR == 5
ADDRESS_REPEAT == 0
ADDRESS_CLAMP_TO_EDGE == 1
\* the stencil masks 0xFF of initializeRenderState, and a second mask value
MASK_FF == 255

\* JavaScript's null; native handles are non-empty tuples
Null == <<>>

(***************************************************************************)
(* Enum translation tables built by the constructor.  TLA+ sequences start *)
(* at 1, so engine value e is looked up at index e + 1.                    *)
(***************************************************************************)
glBlendEquation(webgl2, extBlendMinmax) ==
    << "FUNC_ADD", "FUNC_SUBTRACT", "FUNC_REVERSE_SUBTRACT",
       IF webgl2 THEN "MIN" ELSE IF extBlendMinmax THEN "MIN_EXT" ELSE "FUNC_ADD",
       IF webgl2 THEN "MAX" ELSE IF extBlendMinmax THEN "MAX_EXT" ELSE "FUNC_ADD" >>

glBlendFunction ==
    << "ZERO", "ONE", "SRC_COLOR", "ONE_MINUS_SRC_COLOR", "DST_COLOR",
       "ONE_MINUS_DST_COLOR", "SRC_ALPHA", "SRC_ALPHA_SATURATE",
       "ONE_MINUS_SRC_ALPHA", "DST_ALPHA", "ONE_MINUS_DST_ALPHA",
       "CONSTANT_COLOR", "ONE_MINUS_CONSTANT_COLOR", "CONSTANT_ALPHA",
       "ONE_MINUS_CONSTANT_ALPHA" >>

glComparison ==
    << "NEVER", "LESS", "EQUAL", "LEQUAL", "GREATER", "NOTEQUAL", "GEQUAL", "ALWAYS" >>

glStencilOp ==
    << "KEEP", "ZERO", "REPLACE", "INCR", "INCR_WRAP", "DECR", "DECR_WRAP", "INVERT" >>

\* the native clear bits, as sets of buffer names (bitwise OR is set union)
glClearFlag ==
    << {}, {"COLOR"}, {"DEPTH"}, {"COLOR", "DEPTH"}, {"STENCIL"},
       {"STENCIL", "COLOR"}, {"STENCIL", "DEPTH"}, {"STENCIL", "COLOR", "DEPTH"} >>

glAddress == << "REPEAT", "CLAMP_TO_EDGE", "MIRRORED_REPEAT" >>

glFilter ==
    << "NEAREST", "LINEAR", "NEAREST_MIPMAP_NEAREST", "NEAREST_MIPMAP_LINEAR",
       "LINEAR_MIPMAP_NEAREST", "LINEAR_MIPMAP_LINEAR" >>

\* targetToSlot, as positions in a texture unit's row of the table
targetToSlot(textureTarget) ==
    CASE textureTarget = "TEXTURE_2D" -> 1
      [] textureTarget = "TEXTURE_CUBE_MAP" -> 2
      [] textureTarget = "TEXTURE_3D" -> 3

glCull == << "0", "BACK", "FRONT", "FRONT_AND_BACK" >>

Lookup(table, e) == table[e + 1]

Bit(flags, bit) == (flags \div bit) % 2 = 1

(***************************************************************************)
(* The native context.  A context profile is what a context reports when   *)
(* probed: its supported extensions and the outcome of the render tests.   *)
(* The state below is the state the WebGL specification gives a newly      *)
(* created (or newly restored) context.                                    *)
(***************************************************************************)
Caps == { "BLEND", "CULL_FACE", "DEPTH_TEST", "STENCIL_TEST", "SCISSOR_TEST",
          "SAMPLE_ALPHA_TO_COVERAGE", "RASTERIZER_DISCARD", "POLYGON_OFFSET_FILL" }

FullRect == <<0, 0, CanvasSize, CanvasSize>>

FreshContext(profile, gen) ==
    [ lost |-> FALSE,
      gen |-> gen,
      next |-> 1,
      profile |-> profile,
      cap |-> [c \in Caps |-> FALSE],
      blendFunc |-> <<"ONE", "ZERO", "ONE", "ZERO">>,
      blendEquation |-> <<"FUNC_ADD", "FUNC_ADD">>,
      blendColor |-> <<0, 0, 0, 0>>,
      colorMask |-> <<TRUE, TRUE, TRUE, TRUE>>,
      cullFace |-> "BACK",
      depthFunc |-> "LESS",
      depthMask |-> TRUE,
      stencilFunc |-> [FRONT |-> <<"ALWAYS", 0, MASK_FF>>, BACK |-> <<"ALWAYS", 0, MASK_FF>>],
      stencilOp |-> [FRONT |-> <<"KEEP", "KEEP", "KEEP">>, BACK |-> <<"KEEP", "KEEP", "KEEP">>],
      stencilMask |-> [FRONT |-> MASK_FF, BACK |-> MASK_FF],
      polygonOffset |-> <<0, 0>>,
      clearDepth |-> 1,
      clearColor |-> <<0, 0, 0, 0>>,
      clearStencil |-> 0,
      viewport |-> FullRect,
      scissor |-> FullRect,
      unpackFlipY |-> FALSE,
      unpackPremultiplyAlpha |-> FALSE,
      drawFramebuffer |-> Null,
      readFramebuffer |-> Null,
      vertexArray |-> Null,
      arrayBuffer |-> Null,
      elementArrayBuffer |-> Null,
      program |-> Null,
      activeTexture |-> 0,
      textureBinding |-> [u \in 0 .. (profile.maxCombinedTextures - 1) |-> <<Null, Null, Null>>] ]

\* The effect of one native call on the state of the context.  A lost
\* context accepts every call and does nothing.
glApply(g, c) ==
    IF g.lost THEN g
    ELSE CASE c[1] = "enable" -> [g EXCEPT !.cap[c[2]] = TRUE]
           [] c[1] = "disable" -> [g EXCEPT !.cap[c[2]] = FALSE]
           [] c[1] = "blendFunc" -> [g EXCEPT !.blendFunc = <<c[2], c[3], c[2], c[3]>>]
           [] c[1] = "blendFuncSeparate" -> [g EXCEPT !.blendFunc = <<c[2], c[3], c[4], c[5]>>]
           [] c[1] = "blendEquation" -> [g EXCEPT !.blendEquation = <<c[2], c[2]>>]
           [] c[1] = "blendEquationSeparate" -> [g EXCEPT !.blendEquation = <<c[2], c[3]>>]
           [] c[1] = "blendColor" -> [g EXCEPT !.blendColor = <<c[2], c[3], c[4], c[5]>>]
           [] c[1] = "colorMask" -> [g EXCEPT !.colorMask = <<c[2], c[3], c[4], c[5]>>]
           [] c[1] = "cullFace" -> [g EXCEPT !.cullFace = c[2]]
           [] c[1] = "depthFunc" -> [g EXCEPT !.depthFunc = c[2]]
           [] c[1] = "depthMask" -> [g EXCEPT !.depthMask = c[2]]
           [] c[1] = "stencilFunc" ->
                [g EXCEPT !.stencilFunc = [FRONT |-> <<c[2], c[3], c[4]>>, BACK |-> <<c[2], c[3], c[4]>>]]
           [] c[1] = "stencilFuncSeparate" ->
                [g EXCEPT !.stencilFunc[c[2]] = <<c[3], c[4], c[5]>>]
           [] c[1] = "stencilOp" ->
                [g EXCEPT !.stencilOp = [FRONT |-> <<c[2], c[3], c[4]>>, BACK |-> <<c[2], c[3], c[4]>>]]
           [] c[1] = "stencilOpSeparate" ->
                [g EXCEPT !.stencilOp[c[2]] = <<c[3], c[4], c[5]>>]
           [] c[1] = "stencilMask" -> [g EXCEPT !.stencilMask = [FRONT |-> c[2], BACK |-> c[2]]]
           [] c[1] = "stencilMaskSeparate" -> [g EXCEPT !.stencilMask[c[2]] = c[3]]
           [] c[1] = "polygonOffset" -> [g EXCEPT !.polygonOffset = <<c[2], c[3]>>]
           [] c[1] = "clearDepth" -> [g EXCEPT !.clearDepth = c[2]]
           [] c[1] = "clearColor" -> [g EXCEPT !.clearColor = <<c[2], c[3], c[4], c[5]>>]
           [] c[1] = "clearStencil" -> [g EXCEPT !.clearStencil = c[2]]
           [] c[1] = "viewport" -> [g EXCEPT !.viewport = <<c[2], c[3], c[4], c[5]>>]
           [] c[1] = "scissor" -> [g EXCEPT !.scissor = <<c[2], c[3], c[4], c[5]>>]
           [] c[1] = "pixelStorei" ->
                IF c[2] = "UNPACK_FLIP_Y_WEBGL" THEN [g EXCEPT !.unpackFlipY = c[3]]
                ELSE IF c[2] = "UNPACK_PREMULTIPLY_ALPHA_WEBGL"
                     THEN [g EXCEPT !.unpackPremultiplyAlpha = c[3]]
                     ELSE g
           [] c[1] = "bindFramebuffer" ->
                IF c[2] = "READ_FRAMEBUFFER" THEN [g EXCEPT !.readFramebuffer = c[3]]
                ELSE IF c[2] = "DRAW_FRAMEBUFFER" THEN [g EXCEPT !.drawFramebuffer = c[3]]
                     ELSE [g EXCEPT !.drawFramebuffer = c[3], !.readFramebuffer = c[3]]
           [] c[1] = "bindVertexArray" -> [g EXCEPT !.vertexArray = c[2]]
           [] c[1] = "bindBuffer" ->
                IF c[2] = "ARRAY_BUFFER" THEN [g EXCEPT !.arrayBuffer = c[3]]
                ELSE [g EXCEPT !.elementArrayBuffer = c[3]]
           [] c[1] = "useProgram" -> [g EXCEPT !.program = c[2]]
           [] c[1] = "activeTexture" -> [g EXCEPT !.activeTexture = c[2]]
           [] c[1] = "bindTexture" ->
                [g EXCEPT !.textureBinding[g.activeTexture][targetToSlot(c[2])] = c[3]]
           [] OTHER -> g

\* this.gl.<call>: the call reaches the context and is recorded in the log
GL(m, c) ==
    [m EXCEPT !.gl = glApply(m.gl, c), !.log = Append(m.log, <<"gl">> \o c)]

\* the native calls among the effects of an operation
IsNative(e) == e[1] = "gl"
Natives(l) == SelectSeq(l, IsNative)

\* a run of native calls, in order
RECURSIVE GLs(_, _)
GLs(m, cs) == IF cs = <<>> THEN m ELSE GLs(GL(m, Head(cs)), Tail(cs))

\* the value e, computed once, under the name the operator gives it
Bind(e, Op(_)) == Op(e)

\* assignment of a group of fields of an object; a field the group does not
\* name keeps the value it had (or stays absent)
Assign(obj, fields) ==
    [f \in DOMAIN obj \cup DOMAIN fields |->
        IF f \in DOMAIN fields THEN fields[f] ELSE obj[f]]

\* the value of a field that was never assigned
Undefined == "undefined"
Field(obj, f) == IF f \in DOMAIN obj THEN obj[f] ELSE Undefined

(***************************************************************************)
(* initializeExtensions / initializeCapabilities: the probe of the context *)
(***************************************************************************)
getExtension(m, names) == \E n \in names : n \in m.gl.profile.exts

initializeExtensions(m) ==
    LET w == m.dev.webgl2 IN
    [m EXCEPT !.dev = Assign(m.dev,
        [ extBlendMinmax |-> w \/ getExtension(m, {"EXT_blend_minmax"}),
          extInstancing |-> w \/ getExtension(m, {"ANGLE_instanced_arrays"}),
          extStandardDerivatives |-> w \/ getExtension(m, {"OES_standard_derivatives"}),
          extTextureFloat |-> w \/ getExtension(m, {"OES_texture_float"}),
          extTextureHalfFloat |-> w \/ getExtension(m, {"OES_texture_half_float"}),
          extColorBufferFloat |-> w /\ getExtension(m, {"EXT_color_buffer_float"}),
          extDebugRendererInfo |-> getExtension(m, {"WEBGL_debug_renderer_info"}),
          extTextureFloatLinear |-> getExtension(m, {"OES_texture_float_linear"}),
          extTextureHalfFloatLinear |-> getExtension(m, {"OES_texture_half_float_linear"}),
          extColorBufferHalfFloat |-> getExtension(m, {"EXT_color_buffer_half_float"}),
          extTextureFilterAnisotropic |->
              getExtension(m, {"EXT_texture_filter_anisotropic",
                               "WEBKIT_EXT_texture_filter_anisotropic"}) ])]

initializeCapabilities(m) ==
    LET p == m.gl.profile IN
    [m EXCEPT !.dev = Assign(m.dev,
        [ supportsInstancing |-> m.dev.extInstancing,
          maxCombinedTextures |-> p.maxCombinedTextures,
          maxVertexTextures |-> p.maxVertexTextures,
          vertexUniformsCount |-> p.vertexUniformsCount,
          maxAnisotropy |-> IF m.dev.extTextureFilterAnisotropic THEN p.maxAnisotropy ELSE 1,
          unmaskedRenderer |-> IF m.dev.extDebugRendererInfo THEN p.renderer ELSE "" ])]

(***************************************************************************)
(* initializeRenderState: the baseline pipeline state, asserted on the     *)
(* context and recorded in the cache                                       *)
(***************************************************************************)
initializeRenderState(m) ==
    LET w == m.dev.webgl2 IN
    Bind(GLs(m,
            << <<"disable", "BLEND">>,
               <<"blendFunc", "ONE", "ZERO">>,
               <<"blendEquation", "FUNC_ADD">>,
               <<"blendColor", 0, 0, 0, 0>>,
               <<"colorMask", TRUE, TRUE, TRUE, TRUE>>,
               <<"enable", "CULL_FACE">>,
               <<"cullFace", "BACK">>,
               <<"enable", "DEPTH_TEST">>,
               <<"depthFunc", "LEQUAL">>,
               <<"depthMask", TRUE>>,
               <<"disable", "STENCIL_TEST">>,
               <<"stencilFunc", "ALWAYS", 0, MASK_FF>>,
               <<"stencilOp", "KEEP", "KEEP", "KEEP">>,
               <<"stencilMask", MASK_FF>> >>
            \o (IF w THEN << <<"disable", "SAMPLE_ALPHA_TO_COVERAGE">>,
                             <<"disable", "RASTERIZER_DISCARD">> >>
                     ELSE << >>)
            \o << <<"disable", "POLYGON_OFFSET_FILL">>,
                  <<"clearDepth", 1>>,
                  <<"clearColor", 0, 0, 0, 0>>,
                  <<"clearStencil", 0>> >>
            \o (IF w \/ m.dev.extStandardDerivatives
                   THEN << <<"hint", "FRAGMENT_SHADER_DERIVATIVE_HINT", "NICEST">> >>
                   ELSE << >>)
            \o << <<"enable", "SCISSOR_TEST">>,
                  <<"pixelStorei", "UNPACK_COLORSPACE_CONVERSION_WEBGL", "NONE">>,
                  <<"pixelStorei", "UNPACK_FLIP_Y_WEBGL", FALSE>>,
                  <<"pixelStorei", "UNPACK_PREMULTIPLY_ALPHA_WEBGL", FALSE>>,
                  <<"pixelStorei", "UNPACK_ALIGNMENT", 1>> >>),
    LAMBDA m1 : [m1 EXCEPT !.dev = Assign(m1.dev,
        [ blending |-> FALSE,
          blendSrc |-> BLENDMODE_ONE,
          blendDst |-> BLENDMODE_ZERO,
          blendSrcAlpha |-> BLENDMODE_ONE,
          blendDstAlpha |-> BLENDMODE_ZERO,
          separateAlphaBlend |-> FALSE,
          blendEquation |-> BLENDEQUATION_ADD,
          blendAlphaEquation |-> BLENDEQUATION_ADD,
          separateAlphaEquation |-> FALSE,
          blendColor |-> <<0, 0, 0, 0>>,
          writeRed |-> TRUE,
          writeGreen |-> TRUE,
          writeBlue |-> TRUE,
          writeAlpha |-> TRUE,
          cullMode |-> CULLFACE_BACK,
          depthTest |-> TRUE,
          depthFunc |-> FUNC_LESSEQUAL,
          depthWrite |-> TRUE,
          stencil |-> FALSE,
          stencilFuncFront |-> FUNC_ALWAYS,
          stencilFuncBack |-> FUNC_ALWAYS,
          stencilRefFront |-> 0,
          stencilRefBack |-> 0,
          stencilMaskFront |-> MASK_FF,
          stencilMaskBack |-> MASK_FF,
          stencilFailFront |-> STENCILOP_KEEP,
          stencilFailBack |-> STENCILOP_KEEP,
          stencilZfailFront |-> STENCILOP_KEEP,
          stencilZfailBack |-> STENCILOP_KEEP,
          stencilZpassFront |-> STENCILOP_KEEP,
          stencilZpassBack |-> STENCILOP_KEEP,
          stencilWriteMaskFront |-> MASK_FF,
          stencilWriteMaskBack |-> MASK_FF,
          alphaToCoverage |-> FALSE,
          raster |-> TRUE,
          depthBiasEnabled |-> FALSE,
          clearDepth |-> 1,
          clearColor |-> <<0, 0, 0, 0>>,
          clearStencil |-> 0,
          vx |-> 0, vy |-> 0, vw |-> 0, vh |-> 0,
          sx |-> 0, sy |-> 0, sw |-> 0, sh |-> 0,
          unpackFlipY |-> FALSE,
          unpackPremultiplyAlpha |-> FALSE ])])

(***************************************************************************)
(* The cached state setters                                                *)
(***************************************************************************)
setViewport(m, x, y, w, h) ==
    IF m.dev.vx # x \/ m.dev.vy # y \/ m.dev.vw # w \/ m.dev.vh # h
    THEN [GL(m, <<"viewport", x, y, w, h>>)
            EXCEPT !.dev.vx = x, !.dev.vy = y, !.dev.vw = w, !.dev.vh = h]
    ELSE m

setScissor(m, x, y, w, h) ==
    IF m.dev.sx # x \/ m.dev.sy # y \/ m.dev.sw # w \/ m.dev.sh # h
    THEN [GL(m, <<"scissor", x, y, w, h>>)
            EXCEPT !.dev.sx = x, !.dev.sy = y, !.dev.sw = w, !.dev.sh = h]
    ELSE m

setClearDepth(m, depth) ==
    IF depth # m.dev.clearDepth
    THEN [GL(m, <<"clearDepth", depth>>) EXCEPT !.dev.clearDepth = depth]
    ELSE m

setClearColor(m, r, g, b, a) ==
    LET c == m.dev.clearColor IN
    IF r # c[1] \/ g # c[2] \/ b # c[3] \/ a # c[4]
    THEN [GL(m, <<"clearColor", r, g, b, a>>) EXCEPT !.dev.clearColor = <<r, g, b, a>>]
    ELSE m

setClearStencil(m, value) ==
    IF value # m.dev.clearStencil
    THEN [GL(m, <<"clearStencil", value>>) EXCEPT !.dev.clearStencil = value]
    ELSE m

getDepthTest(m) == m.dev.depthTest

\* setDepthTest without the comparison against the cached value
setDepthTestForwarding(m, depthTest) ==
    [GL(m, IF depthTest THEN <<"enable", "DEPTH_TEST">> ELSE <<"disable", "DEPTH_TEST">>)
       EXCEPT !.dev.depthTest = depthTest]

setDepthTest(m, depthTest) ==
    IF m.dev.depthTest # depthTest
    THEN [GL(m, IF depthTest THEN <<"enable", "DEPTH_TEST">> ELSE <<"disable", "DEPTH_TEST">>)
            EXCEPT !.dev.depthTest = depthTest]
    ELSE m

setDepthFunc(m, func) ==
    IF m.dev.depthFunc = func THEN m
    ELSE [GL(m, <<"depthFunc", Lookup(glComparison, func)>>) EXCEPT !.dev.depthFunc = func]

setDepthWrite(m, writeDepth) ==
    IF m.dev.depthWrite # writeDepth
    THEN [GL(m, <<"depthMask", writeDepth>>) EXCEPT !.dev.depthWrite = writeDepth]
    ELSE m

setColorWrite(m, writeRed, writeGreen, writeBlue, writeAlpha) ==
    IF m.dev.writeRed # writeRed \/ m.dev.writeGreen # writeGreen
       \/ m.dev.writeBlue # writeBlue \/ m.dev.writeAlpha # writeAlpha
    THEN [GL(m, <<"colorMask", writeRed, writeGreen, writeBlue, writeAlpha>>)
            EXCEPT !.dev.writeRed = writeRed, !.dev.writeGreen = writeGreen,
                   !.dev.writeBlue = writeBlue, !.dev.writeAlpha = writeAlpha]
    ELSE m

setAlphaToCoverage(m, state) ==
    IF ~m.dev.webgl2 THEN m
    ELSE IF m.dev.alphaToCoverage = state THEN m
    ELSE LET m1 == [m EXCEPT !.dev.alphaToCoverage = state] IN
         GL(m1, IF state THEN <<"enable", "SAMPLE_ALPHA_TO_COVERAGE">>
                         ELSE <<"disable", "SAMPLE_ALPHA_TO_COVERAGE">>)

setRaster(m, on) ==
    IF m.dev.raster = on THEN m
    ELSE LET m1 == [m EXCEPT !.dev.raster = on] IN
         IF m.dev.webgl2
         THEN GL(m1, IF on THEN <<"disable", "RASTERIZER_DISCARD">>
                           ELSE <<"enable", "RASTERIZER_DISCARD">>)
         ELSE m1

setDepthBias(m, on) ==
    IF m.dev.depthBiasEnabled = on THEN m
    ELSE LET m1 == [m EXCEPT !.dev.depthBiasEnabled = on] IN
         GL(m1, IF on THEN <<"enable", "POLYGON_OFFSET_FILL">>
                      ELSE <<"disable", "POLYGON_OFFSET_FILL">>)

setDepthBiasValues(m, constBias, slopeBias) ==
    GL(m, <<"polygonOffset", slopeBias, constBias>>)

getBlending(m) == m.dev.blending

setBlending(m, blending) ==
    IF m.dev.blending # blending
    THEN [GL(m, IF blending THEN <<"enable", "BLEND">> ELSE <<"disable", "BLEND">>)
            EXCEPT !.dev.blending = blending]
    ELSE m

setStencilTest(m, enable) ==
    IF m.dev.stencil # enable
    THEN [GL(m, IF enable THEN <<"enable", "STENCIL_TEST">> ELSE <<"disable", "STENCIL_TEST">>)
            EXCEPT !.dev.stencil = enable]
    ELSE m

\* setStencilFunc comparing the front face only
setStencilFuncByFrontFace(m, func, refv, mask) ==
    IF m.dev.stencilFuncFront # func \/ m.dev.stencilRefFront # refv \/ m.dev.stencilMaskFront # mask
    THEN [GL(m, <<"stencilFunc", Lookup(glComparison, func), refv, mask>>)
            EXCEPT !.dev.stencilFuncFront = func, !.dev.stencilFuncBack = func,
                   !.dev.stencilRefFront = refv, !.dev.stencilRefBack = refv,
                   !.dev.stencilMaskFront = mask, !.dev.stencilMaskBack = mask]
    ELSE m

setStencilFunc(m, func, refv, mask) ==
    IF m.dev.stencilFuncFront # func \/ m.dev.stencilRefFront # refv \/ m.dev.stencilMaskFront # mask
       \/ m.dev.stencilFuncBack # func \/ m.dev.stencilRefBack # refv \/ m.dev.stencilMaskBack # mask
    THEN [GL(m, <<"stencilFunc", Lookup(glComparison, func), refv, mask>>)
            EXCEPT !.dev.stencilFuncFront = func, !.dev.stencilFuncBack = func,
                   !.dev.stencilRefFront = refv, !.dev.stencilRefBack = refv,
                   !.dev.stencilMaskFront = mask, !.dev.stencilMaskBack = mask]
    ELSE m

setStencilFuncFront(m, func, refv, mask) ==
    IF m.dev.stencilFuncFront # func \/ m.dev.stencilRefFront # refv \/ m.dev.stencilMaskFront # mask
    THEN [GL(m, <<"stencilFuncSeparate", "FRONT", Lookup(glComparison, func), refv, mask>>)
            EXCEPT !.dev.stencilFuncFront = func, !.dev.stencilRefFront = refv,
                   !.dev.stencilMaskFront = mask]
    ELSE m

setStencilFuncBack(m, func, refv, mask) ==
    IF m.dev.stencilFuncBack # func \/ m.dev.stencilRefBack # refv \/ m.dev.stencilMaskBack # mask
    THEN [GL(m, <<"stencilFuncSeparate", "BACK", Lookup(glComparison, func), refv, mask>>)
            EXCEPT !.dev.stencilFuncBack = func, !.dev.stencilRefBack = refv,
                   !.dev.stencilMaskBack = mask]
    ELSE m

setStencilOperation(m, fail, zfail, zpass, writeMask) ==
    LET m1 == IF m.dev.stencilFailFront # fail \/ m.dev.stencilZfailFront # zfail
                 \/ m.dev.stencilZpassFront # zpass \/ m.dev.stencilFailBack # fail
                 \/ m.dev.stencilZfailBack # zfail \/ m.dev.stencilZpassBack # zpass
              THEN [GL(m, <<"stencilOp", Lookup(glStencilOp, fail), Lookup(glStencilOp, zfail),
                             Lookup(glStencilOp, zpass)>>)
                      EXCEPT !.dev.stencilFailFront = fail, !.dev.stencilFailBack = fail,
                             !.dev.stencilZfailFront = zfail, !.dev.stencilZfailBack = zfail,
                             !.dev.stencilZpassFront = zpass, !.dev.stencilZpassBack = zpass]
              ELSE m
    IN IF m1.dev.stencilWriteMaskFront # writeMask \/ m1.dev.stencilWriteMaskBack # writeMask
       THEN [GL(m1, <<"stencilMask", writeMask>>)
               EXCEPT !.dev.stencilWriteMaskFront = writeMask,
                      !.dev.stencilWriteMaskBack = writeMask]
       ELSE m1

setStencilOperationFront(m, fail, zfail, zpass, writeMask) ==
    LET m1 == IF m.dev.stencilFailFront # fail \/ m.dev.stencilZfailFront # zfail
                 \/ m.dev.stencilZpassFront # zpass
              THEN [GL(m, <<"stencilOpSeparate", "FRONT", Lookup(glStencilOp, fail),
                             Lookup(glStencilOp, zfail), Lookup(glStencilOp, zpass)>>)
                      EXCEPT !.dev.stencilFailFront = fail, !.dev.stencilZfailFront = zfail,
                             !.dev.stencilZpassFront = zpass]
              ELSE m
    IN IF m1.dev.stencilWriteMaskFront # writeMask
       THEN [GL(m1, <<"stencilMaskSeparate", "FRONT", writeMask>>)
               EXCEPT !.dev.stencilWriteMaskFront = writeMask]
       ELSE m1

setStencilOperationBack(m, fail, zfail, zpass, writeMask) ==
    LET m1 == IF m.dev.stencilFailBack # fail \/ m.dev.stencilZfailBack # zfail
                 \/ m.dev.stencilZpassBack # zpass
              THEN [GL(m, <<"stencilOpSeparate", "BACK", Lookup(glStencilOp, fail),
                             Lookup(glStencilOp, zfail), Lookup(glStencilOp, zpass)>>)
                      EXCEPT !.dev.stencilFailBack = fail, !.dev.stencilZfailBack = zfail,
                             !.dev.stencilZpassBack = zpass]
              ELSE m
    IN IF m1.dev.stencilWriteMaskBack # writeMask
       THEN [GL(m1, <<"stencilMaskSeparate", "BACK", writeMask>>)
               EXCEPT !.dev.stencilWriteMaskBack = writeMask]
       ELSE m1

\* setBlendFunction comparing the colour factors only
setBlendFunctionByFactors(m, blendSrc, blendDst) ==
    IF m.dev.blendSrc # blendSrc \/ m.dev.blendDst # blendDst
    THEN [GL(m, <<"blendFunc", Lookup(glBlendFunction, blendSrc), Lookup(glBlendFunction, blendDst)>>)
            EXCEPT !.dev.blendSrc = blendSrc, !.dev.blendDst = blendDst,
                   !.dev.separateAlphaBlend = FALSE]
    ELSE m

setBlendFunction(m, blendSrc, blendDst) ==
    IF m.dev.blendSrc # blendSrc \/ m.dev.blendDst # blendDst \/ m.dev.separateAlphaBlend
    THEN [GL(m, <<"blendFunc", Lookup(glBlendFunction, blendSrc), Lookup(glBlendFunction, blendDst)>>)
            EXCEPT !.dev.blendSrc = blendSrc, !.dev.blendDst = blendDst,
                   !.dev.separateAlphaBlend = FALSE]
    ELSE m

setBlendFunctionSeparate(m, blendSrc, blendDst, blendSrcAlpha, blendDstAlpha) ==
    IF m.dev.blendSrc # blendSrc \/ m.dev.blendDst # blendDst
       \/ m.dev.blendSrcAlpha # blendSrcAlpha \/ m.dev.blendDstAlpha # blendDstAlpha
       \/ ~m.dev.separateAlphaBlend
    THEN [GL(m, <<"blendFuncSeparate", Lookup(glBlendFunction, blendSrc),
                   Lookup(glBlendFunction, blendDst), Lookup(glBlendFunction, blendSrcAlpha),
                   Lookup(glBlendFunction, blendDstAlpha)>>)
            EXCEPT !.dev.blendSrc = blendSrc, !.dev.blendDst = blendDst,
                   !.dev.blendSrcAlpha = blendSrcAlpha, !.dev.blendDstAlpha = blendDstAlpha,
                   !.dev.separateAlphaBlend = TRUE]
    ELSE m

setBlendEquation(m, blendEquation) ==
    IF m.dev.blendEquation # blendEquation \/ m.dev.separateAlphaEquation
    THEN [GL(m, <<"blendEquation", Lookup(m.dev.glBlendEquation, blendEquation)>>)
            EXCEPT !.dev.blendEquation = blendEquation, !.dev.separateAlphaEquation = FALSE]
    ELSE m

setBlendEquationSeparate(m, blendEquation, blendAlphaEquation) ==
    IF m.dev.blendEquation # blendEquation \/ m.dev.blendAlphaEquation # blendAlphaEquation
       \/ ~m.dev.separateAlphaEquation
    THEN [GL(m, <<"blendEquationSeparate", Lookup(m.dev.glBlendEquation, blendEquation),
                   Lookup(m.dev.glBlendEquation, blendAlphaEquation)>>)
            EXCEPT !.dev.blendEquation = blendEquation,
                   !.dev.blendAlphaEquation = blendAlphaEquation,
                   !.dev.separateAlphaEquation = TRUE]
    ELSE m

setBlendColor(m, r, g, b, a) ==
    LET c == m.dev.blendColor IN
    IF r # c[1] \/ g # c[2] \/ b # c[3] \/ a # c[4]
    THEN [GL(m, <<"blendColor", r, g, b, a>>) EXCEPT !.dev.blendColor = <<r, g, b, a>>]
    ELSE m

\* setCullMode enabling culling on every change to a culling mode
setCullModeEnablingAlways(m, cullMode) ==
    IF m.dev.cullMode # cullMode
    THEN IF cullMode = CULLFACE_NONE
         THEN [GL(m, <<"disable", "CULL_FACE">>) EXCEPT !.dev.cullMode = cullMode]
         ELSE [GLs(m, << <<"enable", "CULL_FACE">>, <<"cullFace", Lookup(glCull, cullMode)>> >>)
                 EXCEPT !.dev = Assign(m.dev, [cullFace |-> Lookup(glCull, cullMode),
                                               cullMode |-> cullMode])]
    ELSE m

setCullMode(m, cullMode) ==
    IF m.dev.cullMode # cullMode
    THEN LET m1 == IF cullMode = CULLFACE_NONE
                   THEN GL(m, <<"disable", "CULL_FACE">>)
                   ELSE LET m2 == IF m.dev.cullMode = CULLFACE_NONE
                                  THEN GL(m, <<"enable", "CULL_FACE">>)
                                  ELSE m
                            mode == Lookup(glCull, cullMode)
                        IN IF Field(m2.dev, "cullFace") # mode
                           THEN [GL(m2, <<"cullFace", mode>>)
                                   EXCEPT !.dev = Assign(m2.dev, [cullFace |-> mode])]
                           ELSE m2
         IN [m1 EXCEPT !.dev.cullMode = cullMode]
    ELSE m

getCullMode(m) == m.dev.cullMode

(***************************************************************************)
(* initializeContextCaches: the binding caches.  The first four fields are *)
(* the ones the base class resets.                                         *)
(***************************************************************************)
baseInitializeContextCaches(m) ==
    [m EXCEPT !.dev = Assign(m.dev,
        [ indexBuffer |-> Null,
          vertexBuffers |-> <<>>,
          shader |-> Null,
          renderTarget |-> Null ])]

initializeContextCaches(m) ==
    LET m1 == baseInitializeContextCaches(m) IN
    [m1 EXCEPT !.dev = Assign(m1.dev,
        [ vaoMap |-> <<>>,
          boundVao |-> Null,
          activeFramebuffer |-> Null,
          feedback |-> Null,
          transformFeedbackBuffer |-> Null,
          textureUnit |-> 0,
          textureUnits |-> [u \in 0 .. (m1.dev.maxCombinedTextures - 1) |-> <<Null, Null, Null>>] ])]

(***************************************************************************)
(* The renderability self-tests and the lazily cached capability getters   *)
(***************************************************************************)
\* testRenderable(gl, pixelFormat): the calls bypass the device's caches and
\* leave every binding as it was; the verdict is the context's
testRenderable(m, pixelFormat) ==
    [ m |-> GLs(m, << <<"createTexture">>, <<"bindTexture", "TEXTURE_2D", <<"tmp">>>>,
                      <<"texImage2D", "TEXTURE_2D", pixelFormat>>,
                      <<"createFramebuffer">>, <<"bindFramebuffer", "FRAMEBUFFER", <<"tmp">>>>,
                      <<"framebufferTexture2D">>, <<"checkFramebufferStatus">>,
                      <<"bindTexture", "TEXTURE_2D", Null>>, <<"deleteTexture">>,
                      <<"bindFramebuffer", "FRAMEBUFFER", Null>>, <<"deleteFramebuffer">> >>),
      result |-> pixelFormat \in m.gl.profile.renderable ]

testTextureHalfFloatUpdatable(m) ==
    [ m |-> GLs(m, << <<"createTexture">>, <<"bindTexture", "TEXTURE_2D", <<"tmp">>>>,
                      <<"texImage2D", "TEXTURE_2D", "HALF_FLOAT_OES">>, <<"getError">>,
                      <<"bindTexture", "TEXTURE_2D", Null>>, <<"deleteTexture">> >>),
      result |-> m.gl.profile.halfFloatUpdatable ]

\* get textureHalfFloatUpdatable: reading HALF_FLOAT_OES of a missing
\* extension object throws
textureHalfFloatUpdatable(m) ==
    IF Field(m.dev, "_textureHalfFloatUpdatable") # Undefined
    THEN [m |-> m, result |-> m.dev._textureHalfFloatUpdatable]
    ELSE IF m.dev.webgl2
    THEN [m |-> [m EXCEPT !.dev = Assign(m.dev, [_textureHalfFloatUpdatable |-> "true"])],
          result |-> "true"]
    ELSE IF ~m.dev.extTextureHalfFloat
    THEN [m |-> [m EXCEPT !.log = Append(m.log, <<"throw", "TypeError">>)], result |-> "throw"]
    ELSE Bind(testTextureHalfFloatUpdatable(m), LAMBDA t :
             LET v == IF t.result THEN "true" ELSE "false"
             IN [m |-> [t.m EXCEPT !.dev = Assign(t.m.dev, [_textureHalfFloatUpdatable |-> v])],
                 result |-> v])

(***************************************************************************)
(* The constructor                                                         *)
(***************************************************************************)
\* the translation tables that depend on the context (lines 322-451)
constructorTables(m) ==
    [m EXCEPT !.dev = Assign(m.dev,
        [ glBlendEquation |-> glBlendEquation(m.dev.webgl2, m.dev.extBlendMinmax),
          glClearFlag |-> glClearFlag ])]

\* the capability flags derived after the probe (lines 566-637)
constructorCapabilities(m) ==
    LET d == m.dev
        numUniforms == d.vertexUniformsCount - 4 * 4 - 8 - 1 - 4 * 4
        limit == IF numUniforms \div 3 < 128 THEN numUniforms \div 3 ELSE 128
    IN
    Bind(IF d.extTextureFloat
         THEN IF d.webgl2 THEN [m |-> m, result |-> d.extColorBufferFloat]
              ELSE testRenderable(m, "FLOAT")
         ELSE [m |-> m, result |-> FALSE],
    LAMBDA tf :
    Bind(IF d.extColorBufferHalfFloat THEN [m |-> tf.m, result |-> TRUE]
         ELSE IF d.extTextureHalfFloat
         THEN IF d.webgl2 THEN [m |-> tf.m, result |-> d.extColorBufferFloat]
              ELSE testRenderable(tf.m, "HALF_FLOAT_OES")
         ELSE [m |-> tf.m, result |-> FALSE],
    LAMBDA th :
    Bind([th.m EXCEPT !.dev = Assign(th.m.dev,
             [ supportsBoneTextures |-> d.extTextureFloat /\ d.maxVertexTextures > 0,
               boneLimit |-> IF d.unmaskedRenderer = "Mali-450 MP" THEN 34 ELSE limit,
               textureFloatRenderable |-> tf.result,
               textureHalfFloatRenderable |-> th.result,
               _textureFloatHighPrecision |-> Undefined,
               _textureHalfFloatUpdatable |-> Undefined ])],
    LAMBDA m1 :
    Bind(IF d.extTextureHalfFloat THEN textureHalfFloatUpdatable(m1)
         ELSE [m |-> m1, result |-> "false"],
    LAMBDA up :
    [up.m EXCEPT !.dev = Assign(up.m.dev,
          [ areaLightLutFormat |->
              IF d.extTextureHalfFloat /\ up.result = "true" /\ d.extTextureHalfFloatLinear
              THEN "PIXELFORMAT_RGBA16F"
              ELSE IF d.extTextureFloat /\ d.extTextureFloatLinear
                   THEN "PIXELFORMAT_RGBA32F"
                   ELSE "PIXELFORMAT_R8_G8_B8_A8" ])]))))

\* the fields the base class constructor and the first lines of the
\* constructor give the device
NewDevice(webgl2) ==
    [ webgl2 |-> webgl2,
      defaultFramebuffer |-> Null,
      contextLost |-> FALSE,
      insideRenderPass |-> FALSE,
      shaders |-> <<>>,
      textures |-> <<>>,
      buffers |-> <<>>,
      targets |-> <<>>,
      width |-> CanvasSize,
      height |-> CanvasSize,
      drawCallsPerFrame |-> 0,
      attributesInvalidated |-> FALSE,
      tempEnableSafariTextureUnitWorkaround |-> FALSE,
      defaultClearOptions |-> [ color |-> <<0, 0, 0, 1>>, depth |-> 1, stencil |-> 0,
                                flags |-> CLEARFLAG_COLOR + CLEARFLAG_DEPTH ] ]

constructor(webgl2, profile, resources) ==
    Bind([dev |-> NewDevice(webgl2), gl |-> FreshContext(profile, 1),
          res |-> resources, log |-> <<>>],
    LAMBDA m0 : constructorCapabilities(constructorTables(initializeContextCaches(
                    initializeRenderState(initializeCapabilities(initializeExtensions(m0)))))))

(***************************************************************************)
(* Resources.  res holds the application's shaders, textures, buffers and  *)
(* render targets; a reference is <<kind, index>> and a native handle is   *)
(* <<kind, generation of the context, serial>>.  The resource classes and  *)
(* the base class of the device are modelled from their description: each  *)
(* resource owns one native handle, forgets it on loseContext and          *)
(* re-creates it on restore or on next use.                                *)
(***************************************************************************)
Has(obj, f) == f \in DOMAIN obj

Obj(m, r) == m.res[r[1]][r[2]]

SetObj(m, r, fields) == [m EXCEPT !.res[r[1]][r[2]] = Assign(@, fields)]

Note(m, e) == [m EXCEPT !.log = Append(m.log, e)]

\* gl.create<Kind>(): a lost context returns null
createHandle(m, kind) ==
    Bind(GL(m, <<"create", kind>>), LAMBDA m1 :
        IF m.gl.lost THEN [m |-> m1, h |-> Null]
        ELSE [m |-> [m1 EXCEPT !.gl.next = @ + 1], h |-> <<kind, m.gl.gen, m.gl.next>>])

shaderLoseContext(m, r) ==
    SetObj(Note(m, <<"loseContext", r[1], r[2]>>), r,
           [glProgram |-> Null, ready |-> FALSE, failed |-> FALSE])

shaderRestoreContext(m, r) ==
    Bind(createHandle(Note(m, <<"restoreContext", r[1], r[2]>>), "program"), LAMBDA c :
        SetObj(GL(c.m, <<"linkProgram", c.h>>), r, [glProgram |-> c.h]))

\* linking is finalized on first use; it fails without a live program
postLink(m, r) ==
    LET ok == ~m.gl.lost /\ Obj(m, r).glProgram # Null /\ Obj(m, r).linkable IN
    Bind(GL(m, <<"getProgramParameter", Obj(m, r).glProgram, "LINK_STATUS">>), LAMBDA m1 :
        [m |-> IF ok THEN SetObj(m1, r, [ready |-> TRUE]) ELSE m1, result |-> ok])

\* the native texture object is created on first use
textureInitialize(m, r) ==
    Bind(createHandle(m, "texture"), LAMBDA c : SetObj(c.m, r, [glTexture |-> c.h]))

\* the pixels go to the texture bound on the active unit
textureUpload(m, r) ==
    Bind(GL(m, <<"texImage2D", Obj(m, r).glTarget>>), LAMBDA m1 :
        IF Obj(m, r).mipmaps /\ Obj(m, r).needsMipmapsUpload
        THEN GL(m1, <<"generateMipmap", Obj(m, r).glTarget>>)
        ELSE m1)

\* Texture's magFilter setter
textureSetMagFilter(m, r, v) ==
    IF Obj(m, r).magFilter # v
    THEN SetObj(m, r, [magFilter |-> v,
                       parameterFlags |-> IF Bit(Obj(m, r).parameterFlags, 2)
                                          THEN Obj(m, r).parameterFlags
                                          ELSE Obj(m, r).parameterFlags + 2])
    ELSE m

textureLoseContext(m, r) ==
    SetObj(Note(m, <<"loseContext", r[1], r[2]>>), r, [glTexture |-> Null])

bufferLoseContext(m, r) ==
    SetObj(Note(m, <<"loseContext", r[1], r[2]>>), r, [bufferId |-> Null, vao |-> Null])

\* unlock re-creates the buffer object when it has none and uploads the data
bufferUnlock(m, r) ==
    LET target == IF Obj(m, r).isIndex THEN "ELEMENT_ARRAY_BUFFER" ELSE "ARRAY_BUFFER" IN
    Bind(Note(m, <<"unlock", r[1], r[2]>>), LAMBDA m0 :
    Bind(IF Obj(m, r).bufferId = Null THEN createHandle(m0, "buffer")
         ELSE [m |-> m0, h |-> Obj(m, r).bufferId],
    LAMBDA c :
        SetObj(GLs(c.m, << <<"bindBuffer", target, c.h>>, <<"bufferData", target>> >>),
               r, [bufferId |-> c.h])))

targetLoseContext(m, r) ==
    SetObj(Note(m, <<"loseContext", r[1], r[2]>>), r, [glFrameBuffer |-> Null])

targetResolve(m, r, color, depth) == GL(m, <<"blitFramebuffer", color, depth>>)

resourceLoseContext(m, r) ==
    CASE r[1] = "shader" -> shaderLoseContext(m, r)
      [] r[1] = "texture" -> textureLoseContext(m, r)
      [] r[1] = "buffer" -> bufferLoseContext(m, r)
      [] r[1] = "target" -> targetLoseContext(m, r)

\* GraphicsDevice.setRenderTarget
setRenderTarget(m, renderTarget) == [m EXCEPT !.dev.renderTarget = renderTarget]

(***************************************************************************)
(* Framebuffers, render targets and passes                                 *)
(***************************************************************************)
setFramebuffer(m, fb) ==
    IF m.dev.activeFramebuffer # fb
    THEN [GL(m, <<"bindFramebuffer", "FRAMEBUFFER", fb>>) EXCEPT !.dev.activeFramebuffer = fb]
    ELSE m

\* RenderTarget.init: creates the framebuffer object and binds it through
\* the device
targetInit(m, r) ==
    Bind(createHandle(m, "framebuffer"), LAMBDA c :
        setFramebuffer(SetObj(c.m, r, [glFrameBuffer |-> c.h]), c.h))

initRenderTarget(m, target) ==
    IF Obj(m, target).glFrameBuffer # Null THEN m
    ELSE Bind(targetInit(m, target), LAMBDA m1 :
             [m1 EXCEPT !.dev.targets = Append(@, target)])

activeTexture(m, textureUnit) ==
    IF m.dev.textureUnit # textureUnit
    THEN [GL(m, <<"activeTexture", textureUnit>>) EXCEPT !.dev.textureUnit = textureUnit]
    ELSE m

\* bindTexture binding without a look at the table
bindTextureAlways(m, texture) ==
    LET textureTarget == Obj(m, texture).glTarget
        textureObject == Obj(m, texture).glTexture
        textureUnit == m.dev.textureUnit
        slot == targetToSlot(textureTarget)
    IN [GL(m, <<"bindTexture", textureTarget, textureObject>>)
          EXCEPT !.dev.textureUnits[textureUnit][slot] = textureObject]

bindTexture(m, texture) ==
    LET textureTarget == Obj(m, texture).glTarget
        textureObject == Obj(m, texture).glTexture
        textureUnit == m.dev.textureUnit
        slot == targetToSlot(textureTarget)
    IN IF m.dev.textureUnits[textureUnit][slot] # textureObject
       THEN [GL(m, <<"bindTexture", textureTarget, textureObject>>)
               EXCEPT !.dev.textureUnits[textureUnit][slot] = textureObject]
       ELSE m

\* bindTextureOnUnit activating the unit before the look at the table
bindTextureOnUnitActivatingFirst(m, texture, textureUnit) ==
    LET textureTarget == Obj(m, texture).glTarget
        textureObject == Obj(m, texture).glTexture
        slot == targetToSlot(textureTarget)
    IN Bind(activeTexture(m, textureUnit), LAMBDA m1 :
       IF m.dev.textureUnits[textureUnit][slot] # textureObject
       THEN [GL(m1, <<"bindTexture", textureTarget, textureObject>>)
               EXCEPT !.dev.textureUnits[textureUnit][slot] = textureObject]
       ELSE m1)

bindTextureOnUnit(m, texture, textureUnit) ==
    LET textureTarget == Obj(m, texture).glTarget
        textureObject == Obj(m, texture).glTexture
        slot == targetToSlot(textureTarget)
    IN IF m.dev.textureUnits[textureUnit][slot] # textureObject
       THEN [GL(activeTexture(m, textureUnit), <<"bindTexture", textureTarget, textureObject>>)
               EXCEPT !.dev.textureUnits[textureUnit][slot] = textureObject]
       ELSE m

\* the parameters the flags name, in the order of the flag bits
setTextureParameters(m, texture) ==
    LET t == Obj(m, texture)
        flags == t.parameterFlags
        target == t.glTarget
        w == m.dev.webgl2
        filter == IF (~t.pot /\ ~w) \/ ~t.mipmaps \/ (t.compressed /\ t.levels = 1)
                  THEN IF t.minFilter \in {FILTER_NEAREST_MIPMAP_NEAREST,
                                           FILTER_NEAREST_MIPMAP_LINEAR}
                       THEN FILTER_NEAREST
                       ELSE IF t.minFilter \in {FILTER_LINEAR_MIPMAP_NEAREST,
                                                FILTER_LINEAR_MIPMAP_LINEAR}
                            THEN FILTER_LINEAR
                            ELSE t.minFilter
                  ELSE t.minFilter
        clamped == IF t.anisotropy < m.dev.maxAnisotropy THEN t.anisotropy
                   ELSE m.dev.maxAnisotropy
    IN GLs(m,
         (IF Bit(flags, 1)
          THEN << <<"texParameteri", target, "TEXTURE_MIN_FILTER", Lookup(glFilter, filter)>> >>
          ELSE <<>>)
      \o (IF Bit(flags, 2)
          THEN << <<"texParameteri", target, "TEXTURE_MAG_FILTER",
                    Lookup(glFilter, t.magFilter)>> >>
          ELSE <<>>)
      \o (IF Bit(flags, 4)
          THEN << <<"texParameteri", target, "TEXTURE_WRAP_S",
                    Lookup(glAddress, IF w \/ t.pot THEN t.addressU
                                      ELSE ADDRESS_CLAMP_TO_EDGE)>> >>
          ELSE <<>>)
      \o (IF Bit(flags, 8)
          THEN << <<"texParameteri", target, "TEXTURE_WRAP_T",
                    Lookup(glAddress, IF w \/ t.pot THEN t.addressV
                                      ELSE ADDRESS_CLAMP_TO_EDGE)>> >>
          ELSE <<>>)
      \o (IF Bit(flags, 16) /\ w
          THEN << <<"texParameteri", target, "TEXTURE_WRAP_R",
                    Lookup(glAddress, t.addressW)>> >>
          ELSE <<>>)
      \o (IF Bit(flags, 32) /\ w
          THEN << <<"texParameteri", target, "TEXTURE_COMPARE_MODE",
                    IF t.compareOnRead THEN "COMPARE_REF_TO_TEXTURE" ELSE "NONE">> >>
          ELSE <<>>)
      \o (IF Bit(flags, 64) /\ w
          THEN << <<"texParameteri", target, "TEXTURE_COMPARE_FUNC",
                    Lookup(glComparison, t.compareFunc)>> >>
          ELSE <<>>)
      \o (IF Bit(flags, 128) /\ m.dev.extTextureFilterAnisotropic
          THEN << <<"texParameterf", target, "TEXTURE_MAX_ANISOTROPY_EXT",
                    IF clamped > 1 THEN clamped ELSE 1>> >>
          ELSE <<>>))

\* setTexture applying pending parameters and data on whichever unit is active
setTextureOnActiveUnit(m, texture, textureUnit) ==
    Bind(IF Obj(m, texture).glTexture = Null THEN textureInitialize(m, texture) ELSE m,
    LAMBDA m1 :
        LET t == Obj(m1, texture) IN
        IF t.parameterFlags > 0 \/ t.needsUpload \/ t.needsMipmapsUpload
        THEN Bind(bindTexture(m1, texture), LAMBDA m2 :
             Bind(IF t.parameterFlags # 0
                  THEN SetObj(setTextureParameters(m2, texture), texture,
                              [parameterFlags |-> 0])
                  ELSE m2,
             LAMBDA m3 :
                  IF t.needsUpload \/ t.needsMipmapsUpload
                  THEN SetObj(textureUpload(m3, texture), texture,
                              [needsUpload |-> FALSE, needsMipmapsUpload |-> FALSE])
                  ELSE m3))
        ELSE bindTextureOnUnit(m1, texture, textureUnit))

setTexture(m, texture, textureUnit) ==
    Bind(IF Obj(m, texture).glTexture = Null THEN textureInitialize(m, texture) ELSE m,
    LAMBDA m1 :
        LET t == Obj(m1, texture) IN
        IF t.parameterFlags > 0 \/ t.needsUpload \/ t.needsMipmapsUpload
        THEN Bind(bindTexture(activeTexture(m1, textureUnit), texture), LAMBDA m2 :
             Bind(IF t.parameterFlags # 0
                  THEN SetObj(setTextureParameters(m2, texture), texture,
                              [parameterFlags |-> 0])
                  ELSE m2,
             LAMBDA m3 :
                  IF t.needsUpload \/ t.needsMipmapsUpload
                  THEN SetObj(textureUpload(m3, texture), texture,
                              [needsUpload |-> FALSE, needsMipmapsUpload |-> FALSE])
                  ELSE m3))
        ELSE bindTextureOnUnit(m1, texture, textureUnit))

unbindVertexArray(m) ==
    IF m.dev.boundVao # Null
    THEN GL([m EXCEPT !.dev.boundVao = Null], <<"bindVertexArray", Null>>)
    ELSE m

\* updateBegin forgetting the texture units on every device
updateBeginClearingUnits(m) ==
    Bind([m EXCEPT !.dev.boundVao = Null], LAMBDA m1 :
    Bind([m1 EXCEPT !.dev.textureUnits = [u \in DOMAIN @ |-> <<Null, Null, Null>>]],
    LAMBDA m2 :
        LET target == m2.dev.renderTarget
        IN IF target # Null
           THEN IF Obj(m2, target).glFrameBuffer = Null
                THEN initRenderTarget(m2, target)
                ELSE setFramebuffer(m2, Obj(m2, target).glFrameBuffer)
           ELSE setFramebuffer(m2, m2.dev.defaultFramebuffer)))

updateBegin(m) ==
    Bind([m EXCEPT !.dev.boundVao = Null], LAMBDA m1 :
    Bind(IF m1.dev.tempEnableSafariTextureUnitWorkaround
         THEN [m1 EXCEPT !.dev.textureUnits = [u \in DOMAIN @ |-> <<Null, Null, Null>>]]
         ELSE m1,
    LAMBDA m2 :
        LET target == m2.dev.renderTarget
        IN IF target # Null
           THEN IF Obj(m2, target).glFrameBuffer = Null
                THEN initRenderTarget(m2, target)
                ELSE setFramebuffer(m2, Obj(m2, target).glFrameBuffer)
           ELSE setFramebuffer(m2, m2.dev.defaultFramebuffer)))

\* flags & bit, for a single-bit mask

\* clear with the native clear issued before the clear values are committed
clearBeforeValues(m, options) ==
    LET d == m.dev.defaultClearOptions
        flags == IF Has(options, "flags") THEN options.flags ELSE d.flags
        color == IF Has(options, "color") THEN options.color ELSE d.color
        depth == IF Has(options, "depth") THEN options.depth ELSE d.depth
        stencil == IF Has(options, "stencil") THEN options.stencil ELSE d.stencil
    IN IF flags # 0
       THEN Bind(GL(m, <<"clear", Lookup(m.dev.glClearFlag, flags)>>), LAMBDA m0 :
            Bind(IF Bit(flags, CLEARFLAG_COLOR)
                 THEN setClearColor(m0, color[1], color[2], color[3], color[4]) ELSE m0,
            LAMBDA m1 :
            Bind(IF Bit(flags, CLEARFLAG_DEPTH) THEN setClearDepth(m1, depth) ELSE m1,
            LAMBDA m2 :
                IF Bit(flags, CLEARFLAG_STENCIL) THEN setClearStencil(m2, stencil) ELSE m2)))
       ELSE m

\* a clear that puts the write masks back as it found them
clearRestoringMasks(m, options) ==
    LET d == m.dev.defaultClearOptions
        flags == IF Has(options, "flags") THEN options.flags ELSE d.flags
        color == IF Has(options, "color") THEN options.color ELSE d.color
        depth == IF Has(options, "depth") THEN options.depth ELSE d.depth
        stencil == IF Has(options, "stencil") THEN options.stencil ELSE d.stencil
    IN IF flags # 0
       THEN Bind(IF Bit(flags, CLEARFLAG_COLOR)
                 THEN setColorWrite(setClearColor(m, color[1], color[2], color[3], color[4]),
                                    TRUE, TRUE, TRUE, TRUE)
                 ELSE m,
            LAMBDA m1 :
            Bind(IF Bit(flags, CLEARFLAG_DEPTH)
                 THEN setDepthWrite(setClearDepth(m1, depth), TRUE)
                 ELSE m1,
            LAMBDA m2 :
            Bind(IF Bit(flags, CLEARFLAG_STENCIL) THEN setClearStencil(m2, stencil) ELSE m2,
            LAMBDA m3 :
                setDepthWrite(
                    setColorWrite(GL(m3, <<"clear", Lookup(m.dev.glClearFlag, flags)>>),
                                  m.dev.writeRed, m.dev.writeGreen, m.dev.writeBlue,
                                  m.dev.writeAlpha),
                    m.dev.depthWrite))))
       ELSE m

clear(m, options) ==
    LET d == m.dev.defaultClearOptions
        flags == IF Has(options, "flags") THEN options.flags ELSE d.flags
        color == IF Has(options, "color") THEN options.color ELSE d.color
        depth == IF Has(options, "depth") THEN options.depth ELSE d.depth
        stencil == IF Has(options, "stencil") THEN options.stencil ELSE d.stencil
    IN IF flags # 0
       THEN Bind(IF Bit(flags, CLEARFLAG_COLOR)
                 THEN setColorWrite(setClearColor(m, color[1], color[2], color[3], color[4]),
                                    TRUE, TRUE, TRUE, TRUE)
                 ELSE m,
            LAMBDA m1 :
            Bind(IF Bit(flags, CLEARFLAG_DEPTH)
                 THEN setDepthWrite(setClearDepth(m1, depth), TRUE)
                 ELSE m1,
            LAMBDA m2 :
            Bind(IF Bit(flags, CLEARFLAG_STENCIL) THEN setClearStencil(m2, stencil) ELSE m2,
            LAMBDA m3 :
                GL(m3, <<"clear", Lookup(m.dev.glClearFlag, flags)>>))))
       ELSE m

\* startPass clearing within the viewport and scissor it finds
startPassKeepingExtent(m, renderPass) ==
    LET colorOps == renderPass.colorOps
        depthStencilOps == renderPass.depthStencilOps
        clearFlags == (IF colorOps.clear THEN CLEARFLAG_COLOR ELSE 0)
                      + (IF depthStencilOps.clearDepth THEN CLEARFLAG_DEPTH ELSE 0)
                      + (IF depthStencilOps.clearStencil THEN CLEARFLAG_STENCIL ELSE 0)
    IN
    Bind(updateBegin(setRenderTarget(m, renderPass.renderTarget)), LAMBDA m1 :
    Bind(IF clearFlags # 0
         THEN clear(m1, [color |-> colorOps.clearValue,
                         depth |-> depthStencilOps.clearDepthValue,
                         stencil |-> depthStencilOps.clearStencilValue,
                         flags |-> clearFlags])
         ELSE m1,
    LAMBDA m2 :
    Bind(IF m2.dev.insideRenderPass THEN Note(m2, <<"assert", "!insideRenderPass">>) ELSE m2,
    LAMBDA m4 :
        [m4 EXCEPT !.dev.insideRenderPass = TRUE])))

startPass(m, renderPass) ==
    LET colorOps == renderPass.colorOps
        depthStencilOps == renderPass.depthStencilOps
        rt == renderPass.renderTarget
        clearFlags == (IF colorOps.clear THEN CLEARFLAG_COLOR ELSE 0)
                      + (IF depthStencilOps.clearDepth THEN CLEARFLAG_DEPTH ELSE 0)
                      + (IF depthStencilOps.clearStencil THEN CLEARFLAG_STENCIL ELSE 0)
        o1 == IF colorOps.clear THEN [color |-> colorOps.clearValue] ELSE <<>>
        o2 == IF depthStencilOps.clearDepth
              THEN Assign(o1, [depth |-> depthStencilOps.clearDepthValue]) ELSE o1
        o3 == IF depthStencilOps.clearStencil
              THEN Assign(o2, [stencil |-> depthStencilOps.clearStencilValue]) ELSE o2
        clearOptions == Assign(o3, [flags |-> clearFlags])
    IN
    Bind(updateBegin(setRenderTarget(m, rt)), LAMBDA m1 :
    Bind(IF colorOps.clear \/ depthStencilOps.clearDepth \/ depthStencilOps.clearStencil
         THEN LET width == IF rt # Null THEN Obj(m1, rt).width ELSE m1.dev.width
                  height == IF rt # Null THEN Obj(m1, rt).height ELSE m1.dev.height
              IN clear(setScissor(setViewport(m1, 0, 0, width, height), 0, 0, width, height),
                       clearOptions)
         ELSE m1,
    LAMBDA m2 :
    Bind(IF m2.dev.insideRenderPass THEN Note(m2, <<"assert", "!insideRenderPass">>) ELSE m2,
    LAMBDA m4 :
        [m4 EXCEPT !.dev.insideRenderPass = TRUE])))

\* endPass leaving the pass flag as it found it
endPassKeepingFlag(m, renderPass) == unbindVertexArray(m)

\* endPass generating mipmaps without a look at the size or the tier
endPassGeneratingOnAnySize(m, renderPass) ==
    LET colorOps == renderPass.colorOps
        depthStencilOps == renderPass.depthStencilOps
        invalidateAttachments ==
            (IF ~(colorOps.store \/ colorOps.resolve) THEN <<"COLOR_ATTACHMENT0">> ELSE <<>>)
            \o (IF ~depthStencilOps.storeDepth THEN <<"DEPTH_ATTACHMENT">> ELSE <<>>)
            \o (IF ~depthStencilOps.storeStencil THEN <<"STENCIL_ATTACHMENT">> ELSE <<>>)
    IN
    Bind(unbindVertexArray(m), LAMBDA m1 :
    Bind(LET target == m1.dev.renderTarget IN
         IF target # Null
         THEN Bind(IF m1.dev.webgl2 /\ Len(invalidateAttachments) > 0
                      /\ renderPass.fullSizeClearRect
                   THEN GL(m1, <<"invalidateFramebuffer", "DRAW_FRAMEBUFFER",
                                 invalidateAttachments>>)
                   ELSE m1,
              LAMBDA a :
              Bind(IF colorOps.resolve /\ a.dev.webgl2 /\ renderPass.samples > 1
                      /\ Obj(a, target).autoResolve
                   THEN targetResolve(a, target, TRUE, FALSE)
                   ELSE a,
              LAMBDA b :
                  LET colorBuffer == Obj(b, target).colorBuffer
                  IN IF colorOps.mipmaps /\ colorBuffer # Null
                        /\ Obj(b, colorBuffer).glTexture # Null /\ Obj(b, colorBuffer).mipmaps
                     THEN GL(bindTexture(activeTexture(b, b.dev.maxCombinedTextures - 1),
                                         colorBuffer),
                             <<"generateMipmap", Obj(b, colorBuffer).glTarget>>)
                     ELSE b))
         ELSE m1,
    LAMBDA m2 :
        [m2 EXCEPT !.dev.insideRenderPass = FALSE]))

endPass(m, renderPass) ==
    LET colorOps == renderPass.colorOps
        depthStencilOps == renderPass.depthStencilOps
        invalidateAttachments ==
            (IF ~(colorOps.store \/ colorOps.resolve) THEN <<"COLOR_ATTACHMENT0">> ELSE <<>>)
            \o (IF ~depthStencilOps.storeDepth THEN <<"DEPTH_ATTACHMENT">> ELSE <<>>)
            \o (IF ~depthStencilOps.storeStencil THEN <<"STENCIL_ATTACHMENT">> ELSE <<>>)
    IN
    Bind(unbindVertexArray(m), LAMBDA m1 :
    Bind(LET target == m1.dev.renderTarget IN
         IF target # Null
         THEN Bind(IF m1.dev.webgl2 /\ Len(invalidateAttachments) > 0
                      /\ renderPass.fullSizeClearRect
                   THEN GL(m1, <<"invalidateFramebuffer", "DRAW_FRAMEBUFFER",
                                 invalidateAttachments>>)
                   ELSE m1,
              LAMBDA a :
              Bind(IF colorOps.resolve /\ a.dev.webgl2 /\ renderPass.samples > 1
                      /\ Obj(a, target).autoResolve
                   THEN targetResolve(a, target, TRUE, FALSE)
                   ELSE a,
              LAMBDA b :
                  LET colorBuffer == Obj(b, target).colorBuffer
                  IN IF colorOps.mipmaps /\ colorBuffer # Null
                        /\ Obj(b, colorBuffer).glTexture # Null /\ Obj(b, colorBuffer).mipmaps
                        /\ (Obj(b, colorBuffer).pot \/ b.dev.webgl2)
                     THEN GL(bindTexture(activeTexture(b, b.dev.maxCombinedTextures - 1),
                                         colorBuffer),
                             <<"generateMipmap", Obj(b, colorBuffer).glTarget>>)
                     ELSE b))
         ELSE m1,
    LAMBDA m2 :
        [m2 EXCEPT !.dev.insideRenderPass = FALSE]))

\* the copy shader is created on first use
getCopyShader(m) ==
    IF Field(m.dev, "_copyShader") = Undefined
    THEN Note([m EXCEPT !.dev = Assign(m.dev, [_copyShader |-> "outputTex2D"])],
              <<"call", "createShaderFromCode">>)
    ELSE m

\* drawQuadWithShader of the post-effect helpers: a full-screen quad rendered
\* into the target inside an update scope of its own
drawQuadWithShader(m, target) ==
    Bind(updateBegin(setRenderTarget(m, target)), LAMBDA m1 :
        [GLs(m1, << <<"bindVertexArray", <<"quad">>>>, <<"drawArrays", "TRIANGLE_STRIP", 0, 4>>,
                    <<"bindVertexArray", Null>> >>)
           EXCEPT !.dev.boundVao = Null])

Failed(m, message) == [m |-> Note(m, <<"error", message>>), result |-> "false"]

\* the outcome of the checks on the colour buffers: reading a field of a
\* missing render target throws
colorCopyable(m, source, dest) ==
    IF dest = Null
    THEN IF source = Null THEN "throw"
         ELSE IF Obj(m, source).colorBuffer = Null
              THEN "Can't copy empty color buffer to backbuffer" ELSE "ok"
    ELSE IF source # Null
    THEN IF Obj(m, source).colorBuffer = Null \/ Obj(m, dest).colorBuffer = Null
         THEN "Can't copy color buffer, because one of the render targets doesn't have it"
         ELSE IF Obj(m, Obj(m, source).colorBuffer).format
                    # Obj(m, Obj(m, dest).colorBuffer).format
              THEN "Can't copy render targets of different color formats" ELSE "ok"
    ELSE "ok"

\* the outcome of the checks on the depth buffers of a copy from a render target
depthCopyable(m, source, dest) ==
    IF Obj(m, source).depth THEN "ok"
    ELSE IF Obj(m, source).depthBuffer = Null
    THEN "Can't copy depth buffer, because one of the render targets doesn't have it"
    ELSE IF dest = Null THEN "throw"
    ELSE IF Obj(m, dest).depthBuffer = Null
    THEN "Can't copy depth buffer, because one of the render targets doesn't have it"
    ELSE IF Obj(m, Obj(m, source).depthBuffer).format # Obj(m, Obj(m, dest).depthBuffer).format
    THEN "Can't copy render targets of different depth formats" ELSE "ok"

copyRenderTarget(m, source, dest, color, depth) ==
    LET c == IF color THEN colorCopyable(m, source, dest) ELSE "ok"
        d == IF c = "ok" /\ depth /\ source # Null THEN depthCopyable(m, source, dest) ELSE "ok"
        Thrown(m1) == [m |-> Note(m1, <<"throw", "TypeError">>), result |-> "throw"]
    IN
    IF ~m.dev.webgl2 /\ depth THEN Failed(m, "Depth is not copyable on WebGL 1.0")
    ELSE IF c = "throw" \/ d = "throw" THEN Thrown(m)
    ELSE IF c # "ok" THEN Failed(m, c)
    ELSE IF d # "ok" THEN Failed(m, d)
    ELSE IF m.dev.webgl2 /\ dest # Null
    THEN LET prevRt == m.dev.renderTarget IN
         Bind(updateBegin([m EXCEPT !.dev.renderTarget = dest]), LAMBDA m1 :
              LET w == IF source # Null THEN Obj(m1, source).width ELSE Obj(m1, dest).width
                  h == IF source # Null THEN Obj(m1, source).height ELSE Obj(m1, dest).height
              IN [m |-> [GLs(m1,
                            << <<"bindFramebuffer", "READ_FRAMEBUFFER",
                                 IF source # Null THEN Obj(m1, source).glFrameBuffer ELSE Null>>,
                               <<"bindFramebuffer", "DRAW_FRAMEBUFFER",
                                 Obj(m1, dest).glFrameBuffer>>,
                               <<"blitFramebuffer", 0, 0, w, h, 0, 0, w, h,
                                 (IF color THEN {"COLOR"} ELSE {})
                                 \cup (IF depth THEN {"DEPTH"} ELSE {}), "NEAREST">>,
                               <<"bindFramebuffer", "FRAMEBUFFER",
                                 IF prevRt # Null THEN Obj(m1, prevRt).glFrameBuffer
                                 ELSE Null>> >>)
                           EXCEPT !.dev.renderTarget = prevRt],
                  result |-> "true"])
    ELSE Bind(getCopyShader(m), LAMBDA m1 :
              IF source = Null THEN Thrown(m1)
              ELSE [m |-> drawQuadWithShader(m1, dest), result |-> "true"])

(***************************************************************************)
(* Vertex layouts and draw                                                 *)
(***************************************************************************)
RECURSIVE Decimal(_)
Decimal(n) == IF n < 10 THEN <<n>> ELSE Decimal(n \div 10) \o <<n % 10>>

\* key += vertexBuffer.id + vertexBuffer.format.renderingingHash: the two
\* numbers are added and the sum is appended to the key as decimal text
RECURSIVE vaoKey(_, _)
vaoKey(m, vertexBuffers) ==
    IF vertexBuffers = <<>> THEN <<>>
    ELSE Decimal(Obj(m, Head(vertexBuffers)).id + Obj(m, Head(vertexBuffers)).hash)
         \o vaoKey(m, Tail(vertexBuffers))

RECURSIVE attributeCalls(_, _)
attributeCalls(elements, instancing) ==
    IF elements = <<>> THEN <<>>
    ELSE << <<"vertexAttribPointer", Head(elements)>>,
            <<"enableVertexAttribArray", Head(elements)>> >>
         \o (IF instancing THEN << <<"vertexAttribDivisor", Head(elements), 1>> >> ELSE <<>>)
         \o attributeCalls(Tail(elements), instancing)

RECURSIVE bufferCalls(_, _)
bufferCalls(m, vertexBuffers) ==
    IF vertexBuffers = <<>> THEN <<>>
    ELSE LET vb == Obj(m, Head(vertexBuffers))
         IN << <<"bindBuffer", "ARRAY_BUFFER", vb.bufferId>> >>
            \o attributeCalls(vb.elements, vb.instancing)
            \o bufferCalls(m, Tail(vertexBuffers))

MapSet(map, key, value) ==
    [k \in DOMAIN map \cup {key} |-> IF k = key THEN value ELSE map[k]]

\* createVertexArray placing the layout of a single buffer in the keyed cache too
createVertexArrayCachingAll(m, vertexBuffers) ==
    LET key == vaoKey(m, vertexBuffers)
        cached == IF key \in DOMAIN m.dev.vaoMap THEN m.dev.vaoMap[key] ELSE Null
    IN IF cached # Null THEN [m |-> m, vao |-> cached]
       ELSE Bind(createHandle(m, "vao"), LAMBDA c :
            Bind(GLs(c.m, << <<"bindVertexArray", c.h>>,
                             <<"bindBuffer", "ELEMENT_ARRAY_BUFFER", Null>> >>
                          \o bufferCalls(m, vertexBuffers)
                          \o << <<"bindVertexArray", Null>>,
                                <<"bindBuffer", "ARRAY_BUFFER", Null>> >>),
            LAMBDA m3 :
                [m |-> [m3 EXCEPT !.dev.vaoMap = MapSet(@, key, c.h)], vao |-> c.h]))

createVertexArray(m, vertexBuffers) ==
    LET useCache == Len(vertexBuffers) > 1
        key == IF useCache THEN vaoKey(m, vertexBuffers) ELSE <<>>
        cached == IF useCache /\ key \in DOMAIN m.dev.vaoMap THEN m.dev.vaoMap[key] ELSE Null
        locZero == \E i \in 1 .. Len(vertexBuffers) :
                       \E j \in 1 .. Len(Obj(m, vertexBuffers[i]).elements) :
                           Obj(m, vertexBuffers[i]).elements[j] = 0
    IN IF cached # Null THEN [m |-> m, vao |-> cached]
       ELSE Bind(createHandle(m, "vao"), LAMBDA c :
            Bind(GLs(c.m, << <<"bindVertexArray", c.h>>,
                             <<"bindBuffer", "ELEMENT_ARRAY_BUFFER", Null>> >>
                          \o bufferCalls(m, vertexBuffers)
                          \o << <<"bindVertexArray", Null>>,
                                <<"bindBuffer", "ARRAY_BUFFER", Null>> >>),
            LAMBDA m3 :
            Bind(IF useCache THEN [m3 EXCEPT !.dev.vaoMap = MapSet(@, key, c.h)] ELSE m3,
            LAMBDA m4 :
                [m |-> IF locZero THEN m4 ELSE Note(m4, <<"warn", "location 0">>),
                 vao |-> c.h])))

\* setBuffers without the emptying of the queue of vertex buffers
setBuffersKeepingQueue(m) ==
    LET vertexBuffers == m.dev.vertexBuffers IN
    Bind(IF Len(vertexBuffers) = 1
         THEN LET vertexBuffer == vertexBuffers[1]
              IN IF Obj(m, vertexBuffer).vao = Null
                 THEN Bind(createVertexArray(m, vertexBuffers), LAMBDA c :
                          [m |-> SetObj(c.m, vertexBuffer, [vao |-> c.vao]), vao |-> c.vao])
                 ELSE [m |-> m, vao |-> Obj(m, vertexBuffer).vao]
         ELSE createVertexArray(m, vertexBuffers),
    LAMBDA r :
    Bind(IF r.m.dev.boundVao # r.vao
         THEN GL([r.m EXCEPT !.dev.boundVao = r.vao], <<"bindVertexArray", r.vao>>)
         ELSE r.m,
    LAMBDA m1 :
        GL(m1, <<"bindBuffer", "ELEMENT_ARRAY_BUFFER",
                 IF m1.dev.indexBuffer # Null THEN Obj(m1, m1.dev.indexBuffer).bufferId
                 ELSE Null>>)))

setBuffers(m) ==
    LET vertexBuffers == m.dev.vertexBuffers IN
    Bind(IF Len(vertexBuffers) = 1
         THEN LET vertexBuffer == vertexBuffers[1]
              IN IF Obj(m, vertexBuffer).vao = Null
                 THEN Bind(createVertexArray(m, vertexBuffers), LAMBDA c :
                          [m |-> SetObj(c.m, vertexBuffer, [vao |-> c.vao]), vao |-> c.vao])
                 ELSE [m |-> m, vao |-> Obj(m, vertexBuffer).vao]
         ELSE createVertexArray(m, vertexBuffers),
    LAMBDA r :
    Bind(IF r.m.dev.boundVao # r.vao
         THEN GL([r.m EXCEPT !.dev.boundVao = r.vao], <<"bindVertexArray", r.vao>>)
         ELSE r.m,
    LAMBDA m1 :
    Bind([m1 EXCEPT !.dev.vertexBuffers = <<>>], LAMBDA m2 :
        LET bufferId == IF m2.dev.indexBuffer # Null THEN Obj(m2, m2.dev.indexBuffer).bufferId
                        ELSE Null
        IN GL(m2, <<"bindBuffer", "ELEMENT_ARRAY_BUFFER", bufferId>>))))

\* draw; the shaders of the model declare no samplers and no uniforms, so
\* the two commit loops have nothing to visit
\* draw issuing the plain non-indexed variant whatever the primitive
drawArraysOnly(m, primitive, numInstances, keepBuffers) ==
    IF m.dev.shader = Null THEN m
    ELSE Bind(IF ~keepBuffers THEN setBuffers(m) ELSE m, LAMBDA m1 :
             [GL(m1, <<"drawArrays", primitive.type, primitive.base, primitive.count>>)
                EXCEPT !.dev.drawCallsPerFrame = @ + 1])

\* draw without the early return for a missing shader
drawWithoutShaderTest(m, primitive, numInstances, keepBuffers) ==
    Bind(IF ~keepBuffers THEN setBuffers(m) ELSE m, LAMBDA m1 :
        [GL(m1, <<"drawArrays", primitive.type, primitive.base, primitive.count>>)
           EXCEPT !.dev.drawCallsPerFrame = @ + 1])

\* the textures of an array sampler, on consecutive units
RECURSIVE setTextures(_, _, _, _)
setTextures(m, textures, j, textureUnit) ==
    IF j > Len(textures) THEN m
    ELSE setTextures(setTexture(m, textures[j], textureUnit + j - 1), textures, j + 1,
                     textureUnit)

\* sampler.scopeId.value: the sampler record holds the value of its scope
\* variable unless it names the variable
samplerValue(m, s) ==
    IF "scopeId" \in DOMAIN s THEN [s EXCEPT !.value = Obj(m, s.scopeId).value] ELSE s

\* a sampler loop that commits the unit of every set sampler
RECURSIVE commitSamplersCommittingAlways(_, _, _, _)
commitSamplersCommittingAlways(m, shader, i, textureUnit) ==
    IF i > Len(Obj(m, shader).samplers) THEN m
    ELSE LET sampler == samplerValue(m, Obj(m, shader).samplers[i]) IN
         IF ~sampler.isArray /\ sampler.value = Null
         THEN commitSamplersCommittingAlways(m, shader, i + 1, textureUnit)
         ELSE IF ~sampler.isArray
         THEN Bind(setTexture(m, sampler.value, textureUnit), LAMBDA m1 :
              commitSamplersCommittingAlways(
                  IF TRUE
                  THEN SetObj(GL(m1, <<"uniform1i", i, textureUnit>>), shader,
                              [samplers |-> [Obj(m1, shader).samplers
                                                EXCEPT ![i].slot = textureUnit]])
                  ELSE m1,
                  shader, i + 1, textureUnit + 1))
         ELSE Bind(setTextures(m, sampler.value, 1, textureUnit), LAMBDA m1 :
              LET units == [j \in 1 .. Len(sampler.value) |-> textureUnit + j - 1] IN
              commitSamplersCommittingAlways(
                  SetObj(GL(m1, <<"uniform1iv", i, units>>), shader,
                         [samplers |-> [Obj(m1, shader).samplers EXCEPT ![i].array = units]]),
                  shader, i + 1, textureUnit + Len(sampler.value)))

\* the sampler loop of draw: sampler i onwards, from texture unit textureUnit
RECURSIVE commitSamplers(_, _, _, _)
commitSamplers(m, shader, i, textureUnit) ==
    IF i > Len(Obj(m, shader).samplers) THEN m
    ELSE LET sampler == samplerValue(m, Obj(m, shader).samplers[i]) IN
         IF ~sampler.isArray /\ sampler.value = Null
         THEN commitSamplers(m, shader, i + 1, textureUnit)
         ELSE IF ~sampler.isArray
         THEN Bind(setTexture(m, sampler.value, textureUnit), LAMBDA m1 :
              commitSamplers(
                  IF sampler.slot # textureUnit
                  THEN SetObj(GL(m1, <<"uniform1i", i, textureUnit>>), shader,
                              [samplers |-> [Obj(m1, shader).samplers
                                                EXCEPT ![i].slot = textureUnit]])
                  ELSE m1,
                  shader, i + 1, textureUnit + 1))
         ELSE Bind(setTextures(m, sampler.value, 1, textureUnit), LAMBDA m1 :
              LET units == [j \in 1 .. Len(sampler.value) |-> textureUnit + j - 1] IN
              commitSamplers(
                  SetObj(GL(m1, <<"uniform1iv", i, units>>), shader,
                         [samplers |-> [Obj(m1, shader).samplers EXCEPT ![i].array = units]]),
                  shader, i + 1, textureUnit + Len(sampler.value)))

\* the data types whose commit function compares with the committed value
ScalarTypes == {"UNIFORMTYPE_BOOL", "UNIFORMTYPE_INT", "UNIFORMTYPE_FLOAT"}

VectorTypes ==
    { "UNIFORMTYPE_VEC2", "UNIFORMTYPE_VEC3", "UNIFORMTYPE_VEC4",
      "UNIFORMTYPE_IVEC2", "UNIFORMTYPE_IVEC3", "UNIFORMTYPE_IVEC4",
      "UNIFORMTYPE_BVEC2", "UNIFORMTYPE_BVEC3", "UNIFORMTYPE_BVEC4" }

\* the native call each commit function issues
uniformCall ==
    [ UNIFORMTYPE_BOOL |-> "uniform1i", UNIFORMTYPE_INT |-> "uniform1i",
      UNIFORMTYPE_FLOAT |-> "uniform1f",
      UNIFORMTYPE_VEC2 |-> "uniform2fv", UNIFORMTYPE_VEC3 |-> "uniform3fv",
      UNIFORMTYPE_VEC4 |-> "uniform4fv",
      UNIFORMTYPE_IVEC2 |-> "uniform2iv", UNIFORMTYPE_BVEC2 |-> "uniform2iv",
      UNIFORMTYPE_IVEC3 |-> "uniform3iv", UNIFORMTYPE_BVEC3 |-> "uniform3iv",
      UNIFORMTYPE_IVEC4 |-> "uniform4iv", UNIFORMTYPE_BVEC4 |-> "uniform4iv",
      UNIFORMTYPE_MAT2 |-> "uniformMatrix2fv", UNIFORMTYPE_MAT3 |-> "uniformMatrix3fv",
      UNIFORMTYPE_MAT4 |-> "uniformMatrix4fv",
      UNIFORMTYPE_FLOATARRAY |-> "uniform1fv", UNIFORMTYPE_VEC2ARRAY |-> "uniform2fv",
      UNIFORMTYPE_VEC3ARRAY |-> "uniform3fv", UNIFORMTYPE_VEC4ARRAY |-> "uniform4fv" ]

MatrixTypes == {"UNIFORMTYPE_MAT2", "UNIFORMTYPE_MAT3", "UNIFORMTYPE_MAT4"}

\* commit functions that all compare with the committed value
commitFunctionComparingAll(m, shader, i, value) ==
    LET uniform == Obj(m, shader).uniforms[i]
        native == IF uniform.dataType \in MatrixTypes
                  THEN <<uniformCall[uniform.dataType], uniform.locationId, FALSE, value>>
                  ELSE <<uniformCall[uniform.dataType], uniform.locationId, value>>
        m1 == Note(m, <<"commit", uniform.dataType, i>>)
    IN
    IF TRUE
    THEN IF uniform.value # value
         THEN SetObj(GL(m1, native), shader,
                     [uniforms |-> [Obj(m1, shader).uniforms EXCEPT ![i].value = value]])
         ELSE m1
    ELSE GL(m1, native)

\* this.commitFunction[uniform.dataType](uniform, value) for uniform i of the
\* shader; a vector is compared and kept component by component
commitFunction(m, shader, i, value) ==
    LET uniform == Obj(m, shader).uniforms[i]
        native == IF uniform.dataType \in MatrixTypes
                  THEN <<uniformCall[uniform.dataType], uniform.locationId, FALSE, value>>
                  ELSE <<uniformCall[uniform.dataType], uniform.locationId, value>>
        m1 == Note(m, <<"commit", uniform.dataType, i>>)
    IN
    IF uniform.dataType \in ScalarTypes \cup VectorTypes
    THEN IF uniform.value # value
         THEN SetObj(GL(m1, native), shader,
                     [uniforms |-> [Obj(m1, shader).uniforms EXCEPT ![i].value = value]])
         ELSE m1
    ELSE GL(m1, native)

\* a uniform loop that stamps only the uniforms it commits
RECURSIVE commitUniformsStampingCommitted(_, _, _)
commitUniformsStampingCommitted(m, shader, i) ==
    IF i > Len(Obj(m, shader).uniforms) THEN m
    ELSE LET uniform == Obj(m, shader).uniforms[i]
             scopeId == Obj(m, uniform.scopeId)
             programVersion == scopeId.version
         IN
         IF (uniform.version.globalId # programVersion.globalId
             \/ uniform.version.revision # programVersion.revision)
            /\ scopeId.value # Null
         THEN Bind(SetObj(m, shader,
                          [uniforms |-> [Obj(m, shader).uniforms
                                            EXCEPT ![i].version = programVersion]]),
                   LAMBDA m1 :
                       commitUniformsStampingCommitted(
                           commitFunction(m1, shader, i, scopeId.value), shader, i + 1))
         ELSE commitUniformsStampingCommitted(m, shader, i + 1)

\* the uniform loop of draw: uniform i onwards
RECURSIVE commitUniforms(_, _, _)
commitUniforms(m, shader, i) ==
    IF i > Len(Obj(m, shader).uniforms) THEN m
    ELSE LET uniform == Obj(m, shader).uniforms[i]
             scopeId == Obj(m, uniform.scopeId)
             programVersion == scopeId.version
         IN
         IF uniform.version.globalId # programVersion.globalId
            \/ uniform.version.revision # programVersion.revision
         THEN Bind(SetObj(m, shader,
                          [uniforms |-> [Obj(m, shader).uniforms
                                            EXCEPT ![i].version = programVersion]]),
                   LAMBDA m1 :
                       commitUniforms(IF scopeId.value # Null
                                      THEN commitFunction(m1, shader, i, scopeId.value)
                                      ELSE m1,
                                      shader, i + 1))
         ELSE commitUniforms(m, shader, i + 1)

draw(m, primitive, numInstances, keepBuffers) ==
    IF m.dev.shader = Null THEN m
    ELSE
    Bind(commitUniforms(
             commitSamplers(IF ~keepBuffers THEN setBuffers(m) ELSE m, m.dev.shader, 1, 0),
             m.dev.shader, 1),
    LAMBDA m1 :
        LET feedback == m1.dev.webgl2 /\ m1.dev.transformFeedbackBuffer # Null
            thrown == primitive.indexed /\ m1.dev.indexBuffer = Null
        IN
        Bind(IF feedback
             THEN GLs(m1, << <<"bindBufferBase", "TRANSFORM_FEEDBACK_BUFFER", 0,
                               Obj(m1, m1.dev.transformFeedbackBuffer).bufferId>>,
                             <<"beginTransformFeedback", "POINTS">> >>)
             ELSE m1,
        LAMBDA m2 :
            IF thrown THEN Note(m2, <<"throw", "TypeError">>)
            ELSE
            Bind(IF primitive.indexed
                 THEN LET indexBuffer == Obj(m2, m2.dev.indexBuffer)
                          format == indexBuffer.glFormat
                          offset == primitive.base * indexBuffer.bytesPerIndex
                      IN IF numInstances > 0
                         THEN GL(m2, <<"drawElementsInstanced", primitive.type,
                                       primitive.count, format, offset, numInstances>>)
                         ELSE GL(m2, <<"drawElements", primitive.type, primitive.count,
                                       format, offset>>)
                 ELSE IF numInstances > 0
                      THEN GL(m2, <<"drawArraysInstanced", primitive.type, primitive.base,
                                    primitive.count, numInstances>>)
                      ELSE GL(m2, <<"drawArrays", primitive.type, primitive.base,
                                    primitive.count>>),
            LAMBDA m3 :
            Bind(IF feedback
                 THEN GLs(m3, << <<"endTransformFeedback">>,
                                 <<"bindBufferBase", "TRANSFORM_FEEDBACK_BUFFER", 0, Null>> >>)
                 ELSE m3,
            LAMBDA m4 :
                [m4 EXCEPT !.dev.drawCallsPerFrame = @ + 1]))))

setIndexBuffer(m, indexBuffer) == [m EXCEPT !.dev.indexBuffer = indexBuffer]

setVertexBuffer(m, vertexBuffer) ==
    IF vertexBuffer # Null THEN [m EXCEPT !.dev.vertexBuffers = Append(@, vertexBuffer)] ELSE m

\* setShader without the test of the failed mark
setShaderRetrying(m, shader) ==
    IF shader # m.dev.shader
    THEN Bind(IF ~Obj(m, shader).ready THEN postLink(m, shader)
              ELSE [m |-> m, result |-> TRUE],
         LAMBDA p :
             IF ~p.result
             THEN [m |-> SetObj(p.m, shader, [failed |-> TRUE]), result |-> FALSE]
             ELSE [m |-> [GL([p.m EXCEPT !.dev.shader = shader],
                             <<"useProgram", Obj(p.m, shader).glProgram>>)
                            EXCEPT !.dev.attributesInvalidated = TRUE],
                   result |-> TRUE])
    ELSE [m |-> m, result |-> TRUE]

setShader(m, shader) ==
    IF shader # m.dev.shader
    THEN IF Obj(m, shader).failed THEN [m |-> m, result |-> FALSE]
         ELSE Bind(IF ~Obj(m, shader).ready THEN postLink(m, shader)
                   ELSE [m |-> m, result |-> TRUE],
              LAMBDA p :
                  IF ~p.result
                  THEN [m |-> SetObj(p.m, shader, [failed |-> TRUE]), result |-> FALSE]
                  ELSE [m |-> [GL([p.m EXCEPT !.dev.shader = shader],
                                  <<"useProgram", Obj(p.m, shader).glProgram>>)
                                 EXCEPT !.dev.attributesInvalidated = TRUE],
                        result |-> TRUE])
    ELSE [m |-> m, result |-> TRUE]

(***************************************************************************)
(* Context loss and restore                                                *)
(***************************************************************************)
RECURSIVE loseEach(_, _)
loseEach(m, rs) == IF rs = <<>> THEN m ELSE loseEach(resourceLoseContext(m, Head(rs)), Tail(rs))

RECURSIVE restoreEach(_, _)
restoreEach(m, rs) ==
    IF rs = <<>> THEN m ELSE restoreEach(shaderRestoreContext(m, Head(rs)), Tail(rs))

RECURSIVE unlockEach(_, _)
unlockEach(m, rs) == IF rs = <<>> THEN m ELSE unlockEach(bufferUnlock(m, Head(rs)), Tail(rs))

\* the loss broadcast reaching the shaders only
loseContextShadersOnly(m) == loseEach(m, m.dev.shaders)

loseContext(m) ==
    Bind(loseEach(m, m.dev.shaders), LAMBDA m1 :
    Bind(loseEach(m1, m1.dev.textures), LAMBDA m2 :
    Bind(loseEach(m2, m2.dev.buffers), LAMBDA m3 :
        loseEach(m3, m3.dev.targets))))

\* the restore with the shaders recompiled before the device is re-initialized
restoreContextShadersFirst(m) ==
    Bind(restoreEach(m, m.dev.shaders), LAMBDA m1 :
    Bind(initializeContextCaches(Note(
             initializeRenderState(Note(
                 initializeCapabilities(Note(
                     initializeExtensions(Note(m1, <<"call", "initializeExtensions">>)),
                     <<"call", "initializeCapabilities">>)),
                 <<"call", "initializeRenderState">>)),
             <<"call", "initializeContextCaches">>)),
    LAMBDA m2 :
        unlockEach(m2, m2.dev.buffers)))

\* each initialize step is noted as it is entered
restoreContext(m) ==
    Bind(initializeContextCaches(Note(
             initializeRenderState(Note(
                 initializeCapabilities(Note(
                     initializeExtensions(Note(m, <<"call", "initializeExtensions">>)),
                     <<"call", "initializeCapabilities">>)),
                 <<"call", "initializeRenderState">>)),
             <<"call", "initializeContextCaches">>)),
    LAMBDA m1 :
    Bind(restoreEach(m1, m1.dev.shaders), LAMBDA m2 :
        unlockEach(m2, m2.dev.buffers)))

\* the handler announcing the loss before the resources have been notified
contextLostHandlerAnnouncingFirst(m) ==
    Bind(Note([m EXCEPT !.dev.contextLost = TRUE], <<"set", "contextLost", TRUE>>), LAMBDA m1 :
        loseContext(Note(m1, <<"fire", "devicelost">>)))

contextLostHandler(m) ==
    Bind(Note([m EXCEPT !.dev.contextLost = TRUE], <<"set", "contextLost", TRUE>>), LAMBDA m1 :
        Note(loseContext(m1), <<"fire", "devicelost">>))

contextRestoredHandler(m) ==
    Bind(restoreContext(m), LAMBDA m1 :
    Bind(Note([m1 EXCEPT !.dev.contextLost = FALSE], <<"set", "contextLost", FALSE>>),
    LAMBDA m2 :
        Note(m2, <<"fire", "devicerestored">>)))

(***************************************************************************)
(* The state machine.  dev, gl and res are the machine; log holds the      *)
(* effects of the last operation.  The remaining variables observe the     *)
(* run: lastCall is the last call made, hist counts and remembers what the *)
(* properties speak about, and ref is the state of a second context that   *)
(* receives the native calls of every setter call with no cache in front.  *)
(***************************************************************************)
Cur == [dev |-> dev, gl |-> gl, res |-> res, log |-> <<>>]

Count(l, e) == Cardinality({i \in 1 .. Len(l) : l[i] = e})

\* the context profiles the model draws contexts from
Profiles ==
    { [ exts |-> {}, renderable |-> {}, halfFloatUpdatable |-> FALSE, renderer |-> "",
        maxCombinedTextures |-> 2, maxVertexTextures |-> 0, vertexUniformsCount |-> 128,
        maxAnisotropy |-> 1, floatPrecision |-> FALSE ],
      [ exts |-> {"EXT_blend_minmax", "OES_texture_float", "OES_texture_float_linear",
                  "OES_texture_half_float", "OES_standard_derivatives",
                  "EXT_texture_filter_anisotropic"},
        renderable |-> {"FLOAT"}, halfFloatUpdatable |-> TRUE, renderer |-> "",
        maxCombinedTextures |-> 2, maxVertexTextures |-> 4, vertexUniformsCount |-> 1024,
        maxAnisotropy |-> 2, floatPrecision |-> TRUE ] }

PlainProfile == CHOOSE p \in Profiles : p.exts = {}

NoResources == [shader |-> <<>>, texture |-> <<>>, buffer |-> <<>>, target |-> <<>>]

\* the native calls a setter call makes when no comparison against the cache
\* stands in front of them
Uncached(call, webgl2, d) ==
    LET n == call[1]
        OnOff(b, cap) == IF b THEN << <<"enable", cap>> >> ELSE << <<"disable", cap>> >>
    IN CASE n = "setViewport" -> << <<"viewport", call[2], call[3], call[4], call[5]>> >>
         [] n = "setScissor" -> << <<"scissor", call[2], call[3], call[4], call[5]>> >>
         [] n = "setClearDepth" -> << <<"clearDepth", call[2]>> >>
         [] n = "setClearColor" -> << <<"clearColor", call[2], call[3], call[4], call[5]>> >>
         [] n = "setClearStencil" -> << <<"clearStencil", call[2]>> >>
         [] n = "setDepthTest" -> OnOff(call[2], "DEPTH_TEST")
         [] n = "setDepthFunc" -> << <<"depthFunc", Lookup(glComparison, call[2])>> >>
         [] n = "setDepthWrite" -> << <<"depthMask", call[2]>> >>
         [] n = "setColorWrite" -> << <<"colorMask", call[2], call[3], call[4], call[5]>> >>
         [] n = "setAlphaToCoverage" ->
              IF webgl2 THEN OnOff(call[2], "SAMPLE_ALPHA_TO_COVERAGE") ELSE << >>
         [] n = "setRaster" -> IF webgl2 THEN OnOff(~call[2], "RASTERIZER_DISCARD") ELSE << >>
         [] n = "setDepthBias" -> OnOff(call[2], "POLYGON_OFFSET_FILL")
         [] n = "setDepthBiasValues" -> << <<"polygonOffset", call[3], call[2]>> >>
         [] n = "setBlending" -> OnOff(call[2], "BLEND")
         [] n = "setStencilTest" -> OnOff(call[2], "STENCIL_TEST")
         [] n = "setStencilFunc" ->
              << <<"stencilFunc", Lookup(glComparison, call[2]), call[3], call[4]>> >>
         [] n = "setStencilFuncFront" ->
              << <<"stencilFuncSeparate", "FRONT", Lookup(glComparison, call[2]), call[3], call[4]>> >>
         [] n = "setStencilFuncBack" ->
              << <<"stencilFuncSeparate", "BACK", Lookup(glComparison, call[2]), call[3], call[4]>> >>
         [] n = "setStencilOperation" ->
              << <<"stencilOp", Lookup(glStencilOp, call[2]), Lookup(glStencilOp, call[3]),
                   Lookup(glStencilOp, call[4])>>,
                 <<"stencilMask", call[5]>> >>
         [] n = "setStencilOperationFront" ->
              << <<"stencilOpSeparate", "FRONT", Lookup(glStencilOp, call[2]),
                   Lookup(glStencilOp, call[3]), Lookup(glStencilOp, call[4])>>,
                 <<"stencilMaskSeparate", "FRONT", call[5]>> >>
         [] n = "setStencilOperationBack" ->
              << <<"stencilOpSeparate", "BACK", Lookup(glStencilOp, call[2]),
                   Lookup(glStencilOp, call[3]), Lookup(glStencilOp, call[4])>>,
                 <<"stencilMaskSeparate", "BACK", call[5]>> >>
         [] n = "setBlendFunction" ->
              << <<"blendFunc", Lookup(glBlendFunction, call[2]), Lookup(glBlendFunction, call[3])>> >>
         [] n = "setBlendFunctionSeparate" ->
              << <<"blendFuncSeparate", Lookup(glBlendFunction, call[2]),
                   Lookup(glBlendFunction, call[3]), Lookup(glBlendFunction, call[4]),
                   Lookup(glBlendFunction, call[5])>> >>
         [] n = "setBlendEquation" -> << <<"blendEquation", Lookup(d.glBlendEquation, call[2])>> >>
         [] n = "setBlendEquationSeparate" ->
              << <<"blendEquationSeparate", Lookup(d.glBlendEquation, call[2]),
                   Lookup(d.glBlendEquation, call[3])>> >>
         [] n = "setBlendColor" -> << <<"blendColor", call[2], call[3], call[4], call[5]>> >>
         [] n = "setCullMode" ->
              IF call[2] = CULLFACE_NONE THEN << <<"disable", "CULL_FACE">> >>
              ELSE << <<"enable", "CULL_FACE">>, <<"cullFace", Lookup(glCull, call[2])>> >>
         [] OTHER -> << >>

RECURSIVE ApplyAll(_, _)
ApplyAll(g, cs) == IF cs = <<>> THEN g ELSE ApplyAll(glApply(g, Head(cs)), Tail(cs))

\* what hist becomes when `call` has run and left the effects l
Observe(call, l) ==
    [ ncalls |-> hist.ncalls + 1,
      repeat |-> call = lastCall,
      previous |-> lastCall,
      prevNatives |-> Len(Natives(log)),
      enableDepthTest |-> hist.enableDepthTest + Count(l, <<"gl", "enable", "DEPTH_TEST">>),
      disableDepthTest |-> hist.disableDepthTest + Count(l, <<"gl", "disable", "DEPTH_TEST">>),
      lastDepthTest |-> IF call[1] = "setDepthTest"
                        THEN (IF call[2] THEN "true" ELSE "false")
                        ELSE hist.lastDepthTest,
      generationDepthTest |-> IF call[1] = "setDepthTest"
                              THEN (IF call[2] THEN "true" ELSE "false")
                              ELSE IF call[1] = "contextrestored" THEN "none"
                                   ELSE hist.generationDepthTest,
      passOpen |-> IF call[1] = "startPass" THEN TRUE
                   ELSE IF call[1] = "endPass" THEN FALSE ELSE hist.passOpen,
      nested |-> call[1] = "startPass" /\ hist.passOpen,
      cullModeBefore |-> dev.cullMode,
      lostBefore |-> dev.contextLost ]

\* a link status query among the effects
LinkQueried(l) == \E i \in DOMAIN l : l[i][2] = "getProgramParameter"

Returned(l, v) == \E i \in DOMAIN l : l[i] = <<"return", v>>

\* the shaders whose postLink has failed since the context was last lost or
\* restored
ObserveShaders(call, m2) ==
    [ linkFailed |->
        IF call[1] \in {"contextlost", "contextrestored"} THEN {}
        ELSE IF call[1] = "setShader" /\ LinkQueried(m2.log) /\ Returned(m2.log, "false")
             THEN hist.linkFailed \cup {call[2]}
             ELSE hist.linkFailed ]

\* a draw call that resolves a layout on a live context
Resolves(call) ==
    /\ call[1] = "draw"
    /\ ~call[2].keepBuffers
    /\ dev.shader # Null
    /\ ~gl.lost

\* the record of the layouts the draws of this context generation resolved
\* their queues to, when `call` has made the machine m2:
\*   layouts  queue -> the layout object its first draw resolved to;
\*   resolved whether this call resolved a layout, and for which queue;
\*   known    whether a draw had resolved that queue before, and to what;
\*   built    layout object -> the queue it was built from
ObserveLayouts(call, m2) ==
    LET q == dev.vertexBuffers
        known == q \in DOMAIN hist.layouts
        made == \E i \in DOMAIN m2.log : m2.log[i] = <<"gl", "create", "vao">>
    IN IF Resolves(call)
       THEN [ built |-> IF made
                        THEN [v \in DOMAIN hist.built \cup {m2.dev.boundVao} |->
                                 IF v = m2.dev.boundVao THEN q ELSE hist.built[v]]
                        ELSE hist.built,
              layouts |-> IF known THEN hist.layouts
                          ELSE [k \in DOMAIN hist.layouts \cup {q} |->
                                   IF k = q THEN m2.dev.boundVao ELSE hist.layouts[k]],
              resolved |-> TRUE,
              queue |-> q,
              known |-> known,
              earlier |-> IF known THEN hist.layouts[q] ELSE Null ]
       ELSE [ built |-> hist.built,
              layouts |-> IF call[1] \in {"contextlost", "contextrestored"} THEN <<>>
                          ELSE hist.layouts,
              resolved |-> FALSE,
              queue |-> <<>>,
              known |-> FALSE,
              earlier |-> Null ]

\* one call of the application: the machine becomes m2
Call(call, m2) ==
    /\ dev' = m2.dev
    /\ gl' = m2.gl
    /\ res' = m2.res
    /\ log' = m2.log
    /\ lastCall' = call
    /\ hist' = Assign(Assign(Observe(call, m2.log), ObserveLayouts(call, m2)),
                      ObserveShaders(call, m2))
    /\ env' = env

\* a call of a cached state setter; the reference context receives its
\* native calls uncached
Setter(call, m2) ==
    /\ hist.ncalls < env.limit
    /\ Call(call, m2)
    /\ ref' = ApplyAll(ref, Uncached(call, dev.webgl2, dev))

InitWith(m) ==
    /\ dev = m.dev
    /\ gl = m.gl
    /\ res = m.res
    /\ log = m.log
    /\ ref = m.gl
    /\ lastCall = <<"constructor">>
    /\ hist = [ ncalls |-> 0,
                repeat |-> FALSE,
                previous |-> <<>>,
                prevNatives |-> 0,
                enableDepthTest |-> Count(m.log, <<"gl", "enable", "DEPTH_TEST">>),
                disableDepthTest |-> Count(m.log, <<"gl", "disable", "DEPTH_TEST">>),
                lastDepthTest |-> "none",
                generationDepthTest |-> "none",
                passOpen |-> FALSE,
                nested |-> FALSE,
                cullModeBefore |-> m.dev.cullMode,
                lostBefore |-> FALSE,
                linkFailed |-> {},
                built |-> <<>>,
                layouts |-> <<>>,
                resolved |-> FALSE,
                queue |-> <<>>,
                known |-> FALSE,
                earlier |-> Null ]

\* a device of either tier, just constructed on a plain context
InitSetters ==
    /\ \E w \in BOOLEAN : InitWith(constructor(w, PlainProfile, NoResources))
    /\ env = [limit |-> MaxCalls, profiles |-> {}, passes |-> {}, draws |-> {}]

(***************************************************************************)
(* The argument values the model calls the setters with                    *)
(***************************************************************************)
Rects == { <<0, 0, 0, 0>>, FullRect }
Colors == { <<0, 0, 0, 0>>, <<1, 0, 0, 1>> }
ColorMasks == { <<TRUE, TRUE, TRUE, TRUE>>, <<FALSE, FALSE, FALSE, TRUE>> }
DepthFuncs == { FUNC_LESSEQUAL, FUNC_ALWAYS }
CullModes == { CULLFACE_NONE, CULLFACE_BACK, CULLFACE_FRONT, CULLFACE_FRONTANDBACK }
StencilFuncs == { <<FUNC_ALWAYS, 0, MASK_FF>>, <<FUNC_LESS, 1, MASK_FF>> }
StencilOps == { <<STENCILOP_KEEP, STENCILOP_KEEP, STENCILOP_KEEP, MASK_FF>>,
                <<STENCILOP_KEEP, STENCILOP_KEEP, STENCILOP_REPLACE, MASK_FF>>,
                <<STENCILOP_KEEP, STENCILOP_KEEP, STENCILOP_REPLACE, 15>> }
BlendFuncs == { <<BLENDMODE_ONE, BLENDMODE_ZERO>>, <<BLENDMODE_SRC_ALPHA, BLENDMODE_ONE>> }
BlendFuncsSeparate == { <<BLENDMODE_ONE, BLENDMODE_ZERO, BLENDMODE_ONE, BLENDMODE_ZERO>>,
                        <<BLENDMODE_SRC_ALPHA, BLENDMODE_ONE, BLENDMODE_ONE, BLENDMODE_ZERO>> }
BlendEquations == { BLENDEQUATION_ADD, BLENDEQUATION_SUBTRACT }
BlendEquationsSeparate == { <<BLENDEQUATION_ADD, BLENDEQUATION_ADD>>,
                            <<BLENDEQUATION_ADD, BLENDEQUATION_SUBTRACT>> }
DepthBiasValues == { <<0, 0>>, <<1, 1>> }
ClearDepths == { 0, 1 }
ClearStencils == { 0, 1 }

(***************************************************************************)
(* The setter calls                                                        *)
(***************************************************************************)
SetDepthBiasValues ==
    \E v \in DepthBiasValues :
        Setter(<<"setDepthBiasValues", v[1], v[2]>>, setDepthBiasValues(Cur, v[1], v[2]))
SetViewport ==
    \E r \in Rects :
        Setter(<<"setViewport", r[1], r[2], r[3], r[4]>>, setViewport(Cur, r[1], r[2], r[3], r[4]))
SetScissor ==
    \E r \in Rects :
        Setter(<<"setScissor", r[1], r[2], r[3], r[4]>>, setScissor(Cur, r[1], r[2], r[3], r[4]))
SetClearDepth ==
    \E v \in ClearDepths : Setter(<<"setClearDepth", v>>, setClearDepth(Cur, v))
SetClearColor ==
    \E c \in Colors :
        Setter(<<"setClearColor", c[1], c[2], c[3], c[4]>>, setClearColor(Cur, c[1], c[2], c[3], c[4]))
SetClearStencil ==
    \E v \in ClearStencils : Setter(<<"setClearStencil", v>>, setClearStencil(Cur, v))
SetDepthTest ==
    \E b \in BOOLEAN : Setter(<<"setDepthTest", b>>, setDepthTest(Cur, b))
SetDepthFunc ==
    \E f \in DepthFuncs : Setter(<<"setDepthFunc", f>>, setDepthFunc(Cur, f))
SetDepthWrite ==
    \E b \in BOOLEAN : Setter(<<"setDepthWrite", b>>, setDepthWrite(Cur, b))
SetColorWrite ==
    \E c \in ColorMasks :
        Setter(<<"setColorWrite", c[1], c[2], c[3], c[4]>>, setColorWrite(Cur, c[1], c[2], c[3], c[4]))
SetAlphaToCoverage ==
    \E b \in BOOLEAN : Setter(<<"setAlphaToCoverage", b>>, setAlphaToCoverage(Cur, b))
SetRaster ==
    \E b \in BOOLEAN : Setter(<<"setRaster", b>>, setRaster(Cur, b))
SetDepthBias ==
    \E b \in BOOLEAN : Setter(<<"setDepthBias", b>>, setDepthBias(Cur, b))
SetBlending ==
    \E b \in BOOLEAN : Setter(<<"setBlending", b>>, setBlending(Cur, b))
SetStencilTest ==
    \E b \in BOOLEAN : Setter(<<"setStencilTest", b>>, setStencilTest(Cur, b))
SetStencilFunc ==
    \E f \in StencilFuncs :
        Setter(<<"setStencilFunc", f[1], f[2], f[3]>>, setStencilFunc(Cur, f[1], f[2], f[3]))
SetStencilFuncFront ==
    \E f \in StencilFuncs :
        Setter(<<"setStencilFuncFront", f[1], f[2], f[3]>>, setStencilFuncFront(Cur, f[1], f[2], f[3]))
SetStencilFuncBack ==
    \E f \in StencilFuncs :
        Setter(<<"setStencilFuncBack", f[1], f[2], f[3]>>, setStencilFuncBack(Cur, f[1], f[2], f[3]))
SetStencilOperation ==
    \E o \in StencilOps :
        Setter(<<"setStencilOperation", o[1], o[2], o[3], o[4]>>,
               setStencilOperation(Cur, o[1], o[2], o[3], o[4]))
SetStencilOperationFront ==
    \E o \in StencilOps :
        Setter(<<"setStencilOperationFront", o[1], o[2], o[3], o[4]>>,
               setStencilOperationFront(Cur, o[1], o[2], o[3], o[4]))
SetStencilOperationBack ==
    \E o \in StencilOps :
        Setter(<<"setStencilOperationBack", o[1], o[2], o[3], o[4]>>,
               setStencilOperationBack(Cur, o[1], o[2], o[3], o[4]))
SetBlendFunction ==
    \E f \in BlendFuncs :
        Setter(<<"setBlendFunction", f[1], f[2]>>, setBlendFunction(Cur, f[1], f[2]))
SetBlendFunctionSeparate ==
    \E f \in BlendFuncsSeparate :
        Setter(<<"setBlendFunctionSeparate", f[1], f[2], f[3], f[4]>>,
               setBlendFunctionSeparate(Cur, f[1], f[2], f[3], f[4]))
SetBlendEquation ==
    \E e \in BlendEquations : Setter(<<"setBlendEquation", e>>, setBlendEquation(Cur, e))
SetBlendEquationSeparate ==
    \E e \in BlendEquationsSeparate :
        Setter(<<"setBlendEquationSeparate", e[1], e[2]>>, setBlendEquationSeparate(Cur, e[1], e[2]))
SetBlendColor ==
    \E c \in Colors :
        Setter(<<"setBlendColor", c[1], c[2], c[3], c[4]>>, setBlendColor(Cur, c[1], c[2], c[3], c[4]))
SetCullMode ==
    \E c \in CullModes : Setter(<<"setCullMode", c>>, setCullMode(Cur, c))

NextSetters ==
    \/ SetDepthBiasValues \/ SetViewport \/ SetScissor
    \/ SetClearDepth \/ SetClearColor \/ SetClearStencil
    \/ SetDepthTest \/ SetDepthFunc \/ SetDepthWrite \/ SetColorWrite
    \/ SetAlphaToCoverage \/ SetRaster \/ SetDepthBias
    \/ SetBlending \/ SetStencilTest
    \/ SetStencilFunc \/ SetStencilFuncFront \/ SetStencilFuncBack
    \/ SetStencilOperation \/ SetStencilOperationFront \/ SetStencilOperationBack
    \/ SetBlendFunction \/ SetBlendFunctionSeparate
    \/ SetBlendEquation \/ SetBlendEquationSeparate \/ SetBlendColor
    \/ SetCullMode

\* any sequence of setter calls on one context generation
SpecSetters == InitSetters /\ [][NextSetters]_vars

\* the setters of the stencil and blend state that act on both faces or
\* channels, or on one
NextSeparable ==
    \/ SetStencilFunc \/ SetStencilFuncFront \/ SetStencilFuncBack
    \/ SetStencilOperation \/ SetStencilOperationFront \/ SetStencilOperationBack
    \/ SetBlendFunction \/ SetBlendFunctionSeparate
    \/ SetBlendEquation \/ SetBlendEquationSeparate

SpecSeparable == InitSetters /\ [][NextSeparable]_vars

(***************************************************************************)
(* The application's resources and the other calls                         *)
(***************************************************************************)
\* one shader, one texture, two vertex buffers, one index buffer and one
\* render target with the texture as its colour buffer
NewTexture(glTarget, mipmaps, anisotropy) ==
    [ glTexture |-> Null, glTarget |-> glTarget, mipmaps |-> mipmaps, pot |-> TRUE,
      compressed |-> FALSE, levels |-> 1,
      minFilter |-> FILTER_LINEAR_MIPMAP_LINEAR, magFilter |-> FILTER_LINEAR,
      addressU |-> ADDRESS_REPEAT, addressV |-> ADDRESS_REPEAT, addressW |-> ADDRESS_REPEAT,
      compareOnRead |-> FALSE, compareFunc |-> FUNC_LESS, anisotropy |-> anisotropy,
      parameterFlags |-> 255, needsUpload |-> TRUE, needsMipmapsUpload |-> mipmaps ]

AppResources ==
    [ shader |-> << [glProgram |-> Null, ready |-> FALSE, failed |-> FALSE, linkable |-> TRUE,
                     samplers |-> <<>>, uniforms |-> <<>>] >>,
      texture |-> << NewTexture("TEXTURE_2D", TRUE, 1) >>,
      buffer |-> << [id |-> 1, hash |-> 3, elements |-> <<0>>, instancing |-> FALSE,
                     isIndex |-> FALSE, bufferId |-> Null, vao |-> Null],
                    [id |-> 2, hash |-> 2, elements |-> <<1>>, instancing |-> FALSE,
                     isIndex |-> FALSE, bufferId |-> Null, vao |-> Null],
                    [id |-> 3, hash |-> 0, elements |-> <<>>, instancing |-> FALSE,
                     isIndex |-> TRUE, bufferId |-> Null, vao |-> Null,
                     glFormat |-> "UNSIGNED_SHORT", bytesPerIndex |-> 2] >>,
      target |-> << [glFrameBuffer |-> Null, width |-> 1, height |-> 1,
                     colorBuffer |-> <<"texture", 1>>, samples |-> 1, autoResolve |-> TRUE] >> ]

Refs(m, kind) == [i \in 1 .. Len(m.res[kind]) |-> <<kind, i>>]

\* the resource constructors: each resource registers with the device; a
\* shader is compiled and linked, a buffer uploaded
createResources(m) ==
    Bind([m EXCEPT !.dev.shaders = Refs(m, "shader"),
                   !.dev.textures = Refs(m, "texture"),
                   !.dev.buffers = Refs(m, "buffer")],
    LAMBDA m1 : unlockEach(restoreEach(m1, m1.dev.shaders), m1.dev.buffers))

Pass(rt, clearColor, clearDepth, clearStencil) ==
    [ renderTarget |-> rt,
      colorOps |-> [ clear |-> clearColor, clearValue |-> <<1, 0, 0, 1>>, store |-> TRUE,
                     resolve |-> FALSE, mipmaps |-> rt # Null ],
      depthStencilOps |-> [ clearDepth |-> clearDepth, clearDepthValue |-> 0,
                            clearStencil |-> clearStencil, clearStencilValue |-> 1,
                            storeDepth |-> FALSE, storeStencil |-> FALSE ],
      samples |-> 1,
      fullSizeClearRect |-> TRUE ]

TargetClearPass == Pass(<<"target", 1>>, TRUE, FALSE, TRUE)

Passes ==
    { Pass(Null, FALSE, FALSE, FALSE), Pass(Null, TRUE, TRUE, FALSE),
      TargetClearPass, Pass(<<"target", 1>>, FALSE, FALSE, FALSE) }

Primitive(indexed) == [type |-> "TRIANGLES", base |-> 1, count |-> 3, indexed |-> indexed]

Draws ==
    { [primitive |-> Primitive(FALSE), numInstances |-> 0, keepBuffers |-> FALSE],
      [primitive |-> Primitive(TRUE), numInstances |-> 0, keepBuffers |-> FALSE],
      [primitive |-> Primitive(FALSE), numInstances |-> 2, keepBuffers |-> TRUE],
      [primitive |-> Primitive(TRUE), numInstances |-> 4, keepBuffers |-> FALSE] }

\* a call that is not a plain setter, or an event; the reference context
\* follows the hardware
Op(call, m2) ==
    /\ hist.ncalls < env.limit
    /\ Call(call, m2)
    /\ ref' = m2.gl

StartPass == \E p \in env.passes : Op(<<"startPass", p>>, startPass(Cur, p))

EndPass == \E p \in env.passes : Op(<<"endPass", p>>, endPass(Cur, p))

\* the value a call returns, among its effects
Return(r) == Note(r.m, <<"return", IF r.result THEN "true" ELSE "false">>)

SetShader ==
    \E i \in 1 .. Len(res.shader) :
        Op(<<"setShader", <<"shader", i>>>>, Return(setShader(Cur, <<"shader", i>>)))

SetVertexBuffer ==
    \E i \in 1 .. Len(res.buffer) :
        /\ ~res.buffer[i].isIndex
        /\ Op(<<"setVertexBuffer", <<"buffer", i>>>>, setVertexBuffer(Cur, <<"buffer", i>>))

SetIndexBuffer ==
    \E i \in 1 .. Len(res.buffer) :
        /\ res.buffer[i].isIndex
        /\ Op(<<"setIndexBuffer", <<"buffer", i>>>>, setIndexBuffer(Cur, <<"buffer", i>>))

\* an indexed draw is made with an index buffer set, an instanced one on a
\* device that supports instancing
Draw ==
    \E d \in env.draws :
        /\ d.primitive.indexed => dev.indexBuffer # Null
        /\ d.numInstances > 0 => dev.supportsInstancing
        /\ Op(<<"draw", d>>, draw(Cur, d.primitive, d.numInstances, d.keepBuffers))

\* the context is lost and the browser dispatches webglcontextlost
ContextLost ==
    /\ ~gl.lost
    /\ Op(<<"contextlost">>, contextLostHandler([Cur EXCEPT !.gl.lost = TRUE]))

\* the browser restores the context, which starts from the defaults, and
\* dispatches webglcontextrestored
ContextRestored ==
    /\ gl.lost
    /\ \E p \in env.profiles :
           Op(<<"contextrestored">>,
              contextRestoredHandler([Cur EXCEPT !.gl = FreshContext(p, gl.gen + 1)]))

InitDevice(profiles) ==
    \E w \in BOOLEAN : \E p \in profiles :
        InitWith(createResources(constructor(w, p, AppResources)))

\* setters and context loss / restore, with a pass on a render target
InitLoss ==
    /\ InitDevice(Profiles)
    /\ env = [limit |-> MaxOps, profiles |-> Profiles, passes |-> {TargetClearPass}, draws |-> {}]

NextLoss ==
    \/ SetDepthTest \/ SetCullMode \/ StartPass \/ EndPass
    \/ ContextLost \/ ContextRestored

SpecLoss == InitLoss /\ [][NextLoss]_vars

\* passes
InitPass ==
    /\ InitDevice({PlainProfile})
    /\ env = [limit |-> MaxOps, profiles |-> {}, passes |-> Passes, draws |-> {}]

NextPass == StartPass \/ EndPass \/ SetViewport \/ SetColorWrite

SpecPass == InitPass /\ [][NextPass]_vars

\* draws and context loss / restore
InitDraw ==
    /\ InitDevice({PlainProfile})
    /\ env = [limit |-> MaxOps, profiles |-> {PlainProfile}, passes |-> {}, draws |-> Draws]

NextDraw ==
    \/ SetShader \/ SetVertexBuffer \/ SetIndexBuffer \/ Draw
    \/ SetDepthTest \/ ContextLost \/ ContextRestored

SpecDraw == InitDraw /\ [][NextDraw]_vars

\* draws of the queues of one and two vertex buffers, in both orders
InitLayout ==
    /\ InitDevice({PlainProfile})
    /\ env = [ limit |-> MaxOps + 2, profiles |-> {}, passes |-> {},
               draws |-> {[primitive |-> Primitive(FALSE), numInstances |-> 0,
                           keepBuffers |-> FALSE]} ]

NextLayout == SetShader \/ SetVertexBuffer \/ Draw

SpecLayout == InitLayout /\ [][NextLayout]_vars

\* a shader with a texture sampler and a sampler of a texture array, a 2D
\* texture with mipmaps, a cube map, and a render target on the 2D texture
TextureResources ==
    [ shader |-> << [glProgram |-> Null, ready |-> FALSE, failed |-> FALSE, linkable |-> TRUE,
                     samplers |-> << [isArray |-> FALSE, value |-> <<"texture", 1>>,
                                      slot |-> -1, array |-> <<>>],
                                     [isArray |-> TRUE, value |-> << <<"texture", 2>> >>,
                                      slot |-> -1, array |-> <<>>] >>,
                     uniforms |-> <<>>] >>,
      texture |-> << NewTexture("TEXTURE_2D", TRUE, 1), NewTexture("TEXTURE_CUBE_MAP", FALSE, 4) >>,
      buffer |-> <<>>,
      target |-> << [glFrameBuffer |-> Null, width |-> 1, height |-> 1,
                     colorBuffer |-> <<"texture", 1>>, samples |-> 1, autoResolve |-> TRUE] >> ]

\* the browser the device is constructed in
platform(m, safari) == [m EXCEPT !.dev.tempEnableSafariTextureUnitWorkaround = safari]

ActiveTexture ==
    \E u \in DOMAIN dev.textureUnits : Op(<<"activeTexture", u>>, activeTexture(Cur, u))

BindTexture ==
    \E i \in 1 .. Len(res.texture) :
        Op(<<"bindTexture", <<"texture", i>>>>, bindTexture(Cur, <<"texture", i>>))

BindTextureOnUnit ==
    \E i \in 1 .. Len(res.texture) : \E u \in DOMAIN dev.textureUnits :
        Op(<<"bindTextureOnUnit", <<"texture", i>>, u>>,
           bindTextureOnUnit(Cur, <<"texture", i>>, u))

SetTexture ==
    \E i \in 1 .. Len(res.texture) : \E u \in DOMAIN dev.textureUnits :
        Op(<<"setTexture", <<"texture", i>>, u>>, setTexture(Cur, <<"texture", i>>, u))

\* the application changes a parameter of a texture
SetMagFilter ==
    Op(<<"magFilter", <<"texture", 1>>, FILTER_NEAREST>>,
       textureSetMagFilter(Cur, <<"texture", 1>>, FILTER_NEAREST))

\* texture binding, by the binding calls, by draws and by passes
InitTexture ==
    /\ \E w \in BOOLEAN : \E safari \in BOOLEAN :
           InitWith(createResources(platform(constructor(w, PlainProfile, TextureResources),
                                             safari)))
    /\ env = [ limit |-> MaxCalls, profiles |-> {PlainProfile},
               passes |-> {Pass(Null, FALSE, FALSE, FALSE),
                           Pass(<<"target", 1>>, FALSE, FALSE, FALSE)},
               draws |-> {[primitive |-> Primitive(FALSE), numInstances |-> 0,
                           keepBuffers |-> FALSE]} ]

NextTexture ==
    \/ ActiveTexture \/ BindTexture \/ BindTextureOnUnit \/ SetTexture \/ SetMagFilter
    \/ SetShader \/ Draw \/ StartPass \/ EndPass

SpecTexture == InitTexture /\ [][NextTexture]_vars

\* the same calls, with context loss / restore
NextTextureLoss == NextTexture \/ ContextLost \/ ContextRestored

SpecTextureLoss == InitTexture /\ [][NextTextureLoss]_vars

\* a shader that links and one that does not
ShaderResources ==
    [ shader |-> << [glProgram |-> Null, ready |-> FALSE, failed |-> FALSE, linkable |-> TRUE,
                     samplers |-> <<>>, uniforms |-> <<>>],
                    [glProgram |-> Null, ready |-> FALSE, failed |-> FALSE, linkable |-> FALSE,
                     samplers |-> <<>>, uniforms |-> <<>>] >>,
      texture |-> <<>>, buffer |-> <<>>, target |-> <<>> ]

\* shader selection and draws, with context loss / restore
InitShader ==
    /\ \E w \in BOOLEAN : InitWith(createResources(constructor(w, PlainProfile, ShaderResources)))
    /\ env = [ limit |-> MaxOps, profiles |-> {PlainProfile}, passes |-> {},
               draws |-> {[primitive |-> Primitive(FALSE), numInstances |-> 0,
                           keepBuffers |-> FALSE]} ]

NextShader == SetShader \/ Draw \/ ContextLost \/ ContextRestored

SpecShader == InitShader /\ [][NextShader]_vars

\* the value or the exception a call ends with, among its effects
Outcome(r) == IF r.result = "throw" THEN r.m ELSE Note(r.m, <<"return", r.result>>)

\* testTextureFloatHighPrecision: without renderable float textures the
\* answer is false at once; otherwise two quads are drawn into temporary
\* render targets and a pixel is read back, whose value is the context's
testTextureFloatHighPrecision(m) ==
    IF ~m.dev.textureFloatRenderable THEN [m |-> m, result |-> FALSE]
    ELSE LET prevFramebuffer == m.dev.activeFramebuffer IN
         Bind(Note(Note(Note(Note(m, <<"call", "createShaderFromCode">>),
                             <<"call", "createShaderFromCode">>),
                        <<"call", "drawQuadWithShader">>),
                   <<"call", "drawQuadWithShader">>),
         LAMBDA m1 :
             [ m |-> setFramebuffer(GL(setFramebuffer(m1, <<"tmp">>),
                                       <<"readPixels", 0, 0, 1, 1>>),
                                    prevFramebuffer),
               result |-> m.gl.profile.floatPrecision ])

\* get textureFloatHighPrecision: tested on the first read
textureFloatHighPrecision(m) ==
    IF Field(m.dev, "_textureFloatHighPrecision") # Undefined
    THEN [m |-> m, result |-> m.dev._textureFloatHighPrecision]
    ELSE Bind(testTextureFloatHighPrecision(m), LAMBDA t :
             LET v == IF t.result THEN "true" ELSE "false"
             IN [m |-> [t.m EXCEPT !.dev = Assign(t.m.dev, [_textureFloatHighPrecision |-> v])],
                 result |-> v])

GetTextureHalfFloatUpdatable ==
    Op(<<"textureHalfFloatUpdatable">>, Outcome(textureHalfFloatUpdatable(Cur)))

GetTextureFloatHighPrecision ==
    Op(<<"textureFloatHighPrecision">>, Outcome(textureFloatHighPrecision(Cur)))

\* reads of the capability flags between setter calls, losses and restores
NextProbe ==
    \/ GetTextureHalfFloatUpdatable \/ GetTextureFloatHighPrecision
    \/ SetDepthTest \/ SetCullMode \/ ContextLost \/ ContextRestored

SpecProbe == InitLoss /\ [][NextProbe]_vars

\* three textures of two formats and three render targets: one with a colour
\* buffer and an automatic depth buffer, one with a colour buffer of the
\* other format and a depth texture, one with neither; two vertex buffers
FrameResources ==
    [ shader |-> << [glProgram |-> Null, ready |-> FALSE, failed |-> FALSE, linkable |-> TRUE,
                     samplers |-> <<>>, uniforms |-> <<>>] >>,
      texture |-> << Assign(NewTexture("TEXTURE_2D", FALSE, 1), [format |-> "RGBA8"]),
                     Assign(NewTexture("TEXTURE_2D", FALSE, 1), [format |-> "RGBA16F"]),
                     Assign(NewTexture("TEXTURE_2D", FALSE, 1), [format |-> "DEPTH"]) >>,
      buffer |-> << [id |-> 1, hash |-> 3, elements |-> <<0>>, instancing |-> FALSE,
                     isIndex |-> FALSE, bufferId |-> Null, vao |-> Null],
                    [id |-> 2, hash |-> 2, elements |-> <<1>>, instancing |-> FALSE,
                     isIndex |-> FALSE, bufferId |-> Null, vao |-> Null] >>,
      target |-> << [glFrameBuffer |-> Null, width |-> 1, height |-> 1, samples |-> 1,
                     autoResolve |-> TRUE, colorBuffer |-> <<"texture", 1>>,
                     depth |-> TRUE, depthBuffer |-> Null],
                    [glFrameBuffer |-> Null, width |-> 1, height |-> 1, samples |-> 1,
                     autoResolve |-> TRUE, colorBuffer |-> <<"texture", 2>>,
                     depth |-> FALSE, depthBuffer |-> <<"texture", 3>>],
                    [glFrameBuffer |-> Null, width |-> 1, height |-> 1, samples |-> 1,
                     autoResolve |-> TRUE, colorBuffer |-> Null,
                     depth |-> FALSE, depthBuffer |-> Null] >> ]

\* the render targets of a copy: none stands for the back buffer
CopyTargets == {Null} \cup {<<"target", i>> : i \in 1 .. Len(FrameResources.target)}

Copies ==
    [source : CopyTargets, dest : CopyTargets, color : BOOLEAN, depth : BOOLEAN]

CopyRenderTarget ==
    \E c \in env.copies :
        Op(<<"copyRenderTarget", c.source, c.dest, c.color, c.depth>>,
           Outcome(copyRenderTarget(Cur, c.source, c.dest, c.color, c.depth)))

UpdateBegin == Op(<<"updateBegin">>, updateBegin(Cur))

\* setFramebuffer with the default framebuffer or a render target's
SetFramebuffer ==
    \E fb \in {dev.defaultFramebuffer} \cup {res.target[i].glFrameBuffer : i \in DOMAIN res.target} :
        Op(<<"setFramebuffer", fb>>, setFramebuffer(Cur, fb))

\* copies between render targets, around passes
InitCopy ==
    /\ \E w \in BOOLEAN : InitWith(createResources(constructor(w, PlainProfile, FrameResources)))
    /\ env = [ limit |-> MaxCalls, profiles |-> {}, draws |-> {}, copies |-> Copies,
               passes |-> {Pass(<<"target", 1>>, FALSE, FALSE, FALSE)} ]

NextCopy == CopyRenderTarget \/ StartPass \/ EndPass

SpecCopy == InitCopy /\ [][NextCopy]_vars

\* the calls of a frame: buffers, draws, passes, update scopes and copies
InitFrame ==
    /\ \E w \in BOOLEAN : InitWith(createResources(constructor(w, PlainProfile, FrameResources)))
    /\ env = [ limit |-> MaxOps, profiles |-> {},
               draws |-> {[primitive |-> Primitive(FALSE), numInstances |-> 0,
                           keepBuffers |-> FALSE]},
               copies |-> {[source |-> <<"target", 1>>, dest |-> <<"target", 1>>,
                            color |-> TRUE, depth |-> FALSE],
                           [source |-> <<"target", 1>>, dest |-> Null,
                            color |-> TRUE, depth |-> FALSE]},
               passes |-> {Pass(<<"target", 1>>, FALSE, FALSE, FALSE)} ]

NextFrame ==
    \/ SetShader \/ SetVertexBuffer \/ Draw
    \/ StartPass \/ EndPass \/ UpdateBegin \/ CopyRenderTarget \/ SetFramebuffer

SpecFrame == InitFrame /\ [][NextFrame]_vars

\* three textures: with mipmaps and of power-of-two size, with mipmaps and of
\* another size, without mipmaps; a render target on each and one without a
\* colour buffer
MipmapResources ==
    [ shader |-> << [glProgram |-> Null, ready |-> FALSE, failed |-> FALSE, linkable |-> TRUE,
                     samplers |-> <<>>, uniforms |-> <<>>] >>,
      texture |-> << NewTexture("TEXTURE_2D", TRUE, 1),
                     [NewTexture("TEXTURE_2D", TRUE, 1) EXCEPT !.pot = FALSE],
                     NewTexture("TEXTURE_2D", FALSE, 1) >>,
      buffer |-> <<>>,
      target |-> [i \in 1 .. 4 |->
                     [glFrameBuffer |-> Null, width |-> 1, height |-> 1,
                      colorBuffer |-> IF i < 4 THEN <<"texture", i>> ELSE Null,
                      samples |-> 1, autoResolve |-> TRUE]] ]

\* a pass on each render target that asks for mipmaps, one on the first that
\* does not, and one on the back buffer that does
MipmapPasses ==
    { Pass(<<"target", i>>, FALSE, FALSE, FALSE) : i \in 1 .. 4 }
    \cup { [Pass(<<"target", 1>>, FALSE, FALSE, FALSE) EXCEPT !.colorOps.mipmaps = FALSE],
           [Pass(Null, FALSE, FALSE, FALSE) EXCEPT !.colorOps.mipmaps = TRUE] }

\* passes on render targets whose colour buffers are, or are not, uploaded
InitMipmap ==
    /\ \E w \in BOOLEAN : InitWith(createResources(constructor(w, PlainProfile, MipmapResources)))
    /\ env = [limit |-> MaxCalls, profiles |-> {}, draws |-> {}, passes |-> MipmapPasses]

NextMipmap == StartPass \/ EndPass \/ SetTexture

SpecMipmap == InitMipmap /\ [][NextMipmap]_vars

\* ScopeId.setValue: the value is kept and the revision of the variable's
\* version is incremented
setValue(m, scopeId, value) ==
    SetObj(m, scopeId,
           [value |-> value,
            version |-> [Obj(m, scopeId).version EXCEPT !.revision = @ + 1]])

\* a variable of the scope: its version has the variable's own global id; a
\* value is the tuple of its components, a number the tuple of itself
ScopeVariable(globalId, value) ==
    [value |-> value, version |-> [globalId |-> globalId, revision |-> 0]]

\* a uniform of a linked shader: no component committed yet, a version no
\* scope variable has
Uniform(scope, dataType, locationId) ==
    [ scopeId |-> <<"scope", scope>>, dataType |-> dataType, locationId |-> locationId,
      value |-> <<>>, version |-> [globalId |-> 0, revision |-> 0] ]

Sampler(scope, isArray) ==
    [ scopeId |-> <<"scope", scope>>, isArray |-> isArray, value |-> Null,
      slot |-> -1, array |-> <<>> ]

\* a shader with a float, a two-component vector and a 2x2 matrix uniform,
\* two texture samplers and a sampler of a texture array, on six scope
\* variables; two textures
UniformResources ==
    [ shader |-> << [glProgram |-> Null, ready |-> FALSE, failed |-> FALSE, linkable |-> TRUE,
                     samplers |-> << Sampler(5, FALSE), Sampler(4, FALSE), Sampler(6, TRUE) >>,
                     uniforms |-> << Uniform(1, "UNIFORMTYPE_FLOAT", "a"),
                                     Uniform(2, "UNIFORMTYPE_VEC2", "b"),
                                     Uniform(3, "UNIFORMTYPE_MAT2", "c") >>] >>,
      texture |-> << NewTexture("TEXTURE_2D", FALSE, 1), NewTexture("TEXTURE_2D", FALSE, 1) >>,
      buffer |-> <<>>,
      target |-> <<>>,
      scope |-> << ScopeVariable(1, Null), ScopeVariable(2, <<0, 1>>),
                   ScopeVariable(3, <<1, 0, 0, 1>>), ScopeVariable(4, Null),
                   ScopeVariable(5, <<"texture", 2>>),
                   ScopeVariable(6, << <<"texture", 1>>, <<"texture", 2>> >>) >> ]

\* the values the application gives the scope variables
ScopeValues ==
    << <<1, Null>>, <<1, <<0>>>>, <<1, <<1>>>>,
       <<2, <<0, 1>>>>, <<2, <<1, 1>>>>,
       <<3, <<1, 0, 0, 1>>>>,
       <<4, Null>>, <<4, <<"texture", 1>>>>,
       <<6, <<>>>>, <<6, << <<"texture", 1>> >>>> >>

SetValue ==
    \E k \in DOMAIN env.values :
        LET v == env.values[k] IN
        Op(<<"setValue", <<"scope", v[1]>>, v[2]>>, setValue(Cur, <<"scope", v[1]>>, v[2]))

\* draws of a shader whose uniforms and samplers the application changes, on
\* a context with a texture unit for every texture of the samplers
InitUniform ==
    /\ \E w \in BOOLEAN :
          InitWith(createResources(constructor(
              w, [PlainProfile EXCEPT !.maxCombinedTextures = 4], UniformResources)))
    /\ env = [ limit |-> MaxOps, profiles |-> {}, passes |-> {}, values |-> ScopeValues,
               draws |-> {[primitive |-> Primitive(FALSE), numInstances |-> 0,
                           keepBuffers |-> FALSE]} ]

NextUniform == SetShader \/ Draw \/ SetValue

SpecUniform == InitUniform /\ [][NextUniform]_vars

\* the device with every call of the model
Init ==
    /\ InitDevice(Profiles)
    /\ env = [limit |-> MaxCalls, profiles |-> Profiles, passes |-> Passes, draws |-> Draws]

Next == NextSetters \/ NextLoss \/ NextPass \/ NextDraw \/ NextTexture

Spec == Init /\ [][Next]_vars

(***************************************************************************)
(* Properties                                                              *)
(***************************************************************************)
SetterNames ==
    { "setViewport", "setScissor", "setClearDepth", "setClearColor", "setClearStencil",
      "setDepthTest", "setDepthFunc", "setDepthWrite", "setColorWrite", "setAlphaToCoverage",
      "setRaster", "setDepthBias", "setDepthBiasValues", "setBlending", "setStencilTest",
      "setStencilFunc", "setStencilFuncFront", "setStencilFuncBack", "setStencilOperation",
      "setStencilOperationFront", "setStencilOperationBack", "setBlendFunction",
      "setBlendFunctionSeparate", "setBlendEquation", "setBlendEquationSeparate",
      "setBlendColor", "setCullMode" }

Fields(d, fs) == [f \in fs |-> Field(d, f)]

\* the device a constructor call on the present context's profile produces
FreshDevice == constructor(dev.webgl2, gl.profile, NoResources).dev

\* C1: within one context generation, after any sequence of cached setter
\* calls made from the state initializeRenderState left, the hardware state
\* is the state that forwarding every call to the context would have left:
\* no call is skipped while the hardware differs from its arguments.
CachedSettersRefineForwarding == gl = ref

\* C2: the second of two consecutive calls of a setter of the family with the
\* same arguments issues no native call.
RepeatedSetterIssuesNothing ==
    (hist.repeat /\ lastCall[1] \in SetterNames) => Natives(log) = <<>>

\* the scenario of C3: the device is constructed and setDepthTest(true) is
\* called twice; the native calls are counted from the construction on
DepthTestTwice == hist.ncalls = 2 /\ hist.repeat /\ lastCall = <<"setDepthTest", TRUE>>

DepthTestScenario ==
    DepthTestTwice =>
        /\ hist.enableDepthTest = 1
        /\ hist.disableDepthTest = 0
        /\ getDepthTest(Cur) = TRUE

\* C3 as amended: constructing a device and calling setDepthTest(true) twice
\* issues exactly one enable(DEPTH_TEST) and no disable(DEPTH_TEST), and
\* getDepthTest() is true; in general getDepthTest() returns the argument of
\* the most recent setDepthTest call made since the device was constructed
\* or its context was last restored, and true when there is none.
DepthTestFollowsLastCallOfGeneration ==
    /\ DepthTestScenario
    /\ getDepthTest(Cur) = (hist.generationDepthTest # "false")

DepthTestSetTwiceWitness == DepthTestTwice /\ hist.enableDepthTest = 1

\* C3 as stated: the same, with getDepthTest() returning the argument of the
\* most recent setDepthTest call ever made, and true when there is none.
DepthTestFollowsLastCall ==
    /\ DepthTestScenario
    /\ getDepthTest(Cur) = (hist.lastDepthTest # "false")

\* C4: a setCullMode call issues enable(CULL_FACE) exactly when the cached
\* mode goes from NONE to another mode, disable(CULL_FACE) exactly when it
\* goes from another mode to NONE, and neither otherwise.
CullFaceToggledOnEdges ==
    lastCall[1] = "setCullMode" =>
        /\ Count(log, <<"gl", "enable", "CULL_FACE">>)
             = IF hist.cullModeBefore = CULLFACE_NONE /\ lastCall[2] # CULLFACE_NONE
               THEN 1 ELSE 0
        /\ Count(log, <<"gl", "disable", "CULL_FACE">>)
             = IF hist.cullModeBefore # CULLFACE_NONE /\ lastCall[2] = CULLFACE_NONE
               THEN 1 ELSE 0

CullFaceEnabledOnEdgeWitness ==
    /\ lastCall = <<"setCullMode", CULLFACE_FRONT>>
    /\ hist.cullModeBefore = CULLFACE_NONE
    /\ Count(log, <<"gl", "enable", "CULL_FACE">>) = 1

\* the cached pipeline state and the binding caches
CacheFields ==
    { "blending", "blendSrc", "blendDst", "blendSrcAlpha", "blendDstAlpha",
      "separateAlphaBlend", "blendEquation", "blendAlphaEquation", "separateAlphaEquation",
      "blendColor", "writeRed", "writeGreen", "writeBlue", "writeAlpha", "cullMode",
      "cullFace", "depthTest", "depthFunc", "depthWrite", "stencil", "stencilFuncFront",
      "stencilFuncBack", "stencilRefFront", "stencilRefBack", "stencilMaskFront",
      "stencilMaskBack", "stencilFailFront", "stencilFailBack", "stencilZfailFront",
      "stencilZfailBack", "stencilZpassFront", "stencilZpassBack", "stencilWriteMaskFront",
      "stencilWriteMaskBack", "alphaToCoverage", "raster", "depthBiasEnabled", "clearDepth",
      "clearColor", "clearStencil", "vx", "vy", "vw", "vh", "sx", "sy", "sw", "sh",
      "unpackFlipY", "unpackPremultiplyAlpha", "vaoMap", "boundVao", "activeFramebuffer",
      "feedback", "transformFeedbackBuffer", "textureUnit", "textureUnits", "indexBuffer",
      "vertexBuffers", "shader", "renderTarget" }

\* C5: after a context loss and restore, whatever was called before, every
\* cached pipeline-state field and every binding-cache field holds the value
\* it holds on a freshly constructed device.
RestoredCachesAreFresh ==
    lastCall[1] = "contextrestored" =>
        Fields(dev, CacheFields) = Fields(FreshDevice, CacheFields)

\* the tables and capability flags the constructor derives from the context
DerivedFields ==
    { "glBlendEquation", "textureFloatRenderable", "textureHalfFloatRenderable",
      "supportsBoneTextures", "boneLimit", "areaLightLutFormat",
      "_textureHalfFloatUpdatable" }

\* C6: after the restore handler has run, the enum tables and the derived
\* capability flags are the ones derived from the restored context.
RestoredCapabilitiesRederived ==
    lastCall[1] = "contextrestored" =>
        Fields(dev, DerivedFields) = Fields(FreshDevice, DerivedFields)

\* C7: a startPass call raises the non-nesting assertion exactly when a pass
\* is active, no other call raises it, the device is inside a pass after
\* startPass and outside after endPass.
PassAssertionExactlyWhenNested ==
    /\ Count(log, <<"assert", "!insideRenderPass">>)
         = IF lastCall[1] = "startPass" /\ hist.nested THEN 1 ELSE 0
    /\ lastCall[1] = "startPass" => dev.insideRenderPass
    /\ lastCall[1] = "endPass" => ~dev.insideRenderPass

NestedStartPassWitness ==
    /\ lastCall[1] = "startPass"
    /\ hist.nested
    /\ Count(log, <<"assert", "!insideRenderPass">>) = 1

\* the cached state a pass works with
PassFields ==
    { "renderTarget", "activeFramebuffer", "boundVao", "vx", "vy", "vw", "vh",
      "sx", "sy", "sw", "sh", "clearColor", "clearDepth", "clearStencil",
      "writeRed", "writeGreen", "writeBlue", "writeAlpha", "depthWrite" }

\* C8: a startPass call made while a pass is active issues no native call
\* and leaves the render target, the active framebuffer, the bound VAO, the
\* viewport, the scissor, the clear values, the colour mask and the depth
\* write flag as they were.
NestedStartPassChangesNothing ==
    [][ (hist.passOpen /\ hist'.ncalls = hist.ncalls + 1 /\ lastCall'[1] = "startPass")
          => /\ Natives(log') = <<>>
             /\ Fields(dev', PassFields) = Fields(dev, PassFields) ]_vars

\* the handles a native call names
HandlesOf(e) ==
    CASE e[2] \in {"useProgram", "linkProgram", "getProgramParameter", "bindVertexArray"}
           -> <<e[3]>>
      [] e[2] \in {"bindBuffer", "bindFramebuffer", "bindTexture"} -> <<e[4]>>
      [] e[2] = "bindBufferBase" -> <<e[5]>>
      [] OTHER -> <<>>

\* a native call naming a live-looking handle of a kind the loss broadcast
\* releases
UsesReleasedHandle(e) ==
    /\ e[1] = "gl"
    /\ \E i \in DOMAIN HandlesOf(e) :
           /\ HandlesOf(e)[i] # Null
           /\ HandlesOf(e)[i][1] \in {"program", "buffer", "texture", "framebuffer"}

Tracked == dev.shaders \o dev.textures \o dev.buffers \o dev.targets

Positions(l, e) == {i \in DOMAIN l : l[i] = e}

\* C10: in the context-lost handler the lost flag is set before any resource
\* is notified, every tracked shader, texture, buffer and render target is
\* sent loseContext, and 'devicelost' is emitted after all of them.
LossBroadcastOrdered ==
    lastCall[1] = "contextlost" =>
        /\ dev.contextLost
        /\ Cardinality(Positions(log, <<"set", "contextLost", TRUE>>)) = 1
        /\ Cardinality(Positions(log, <<"fire", "devicelost">>)) = 1
        /\ \A k \in DOMAIN Tracked :
               Positions(log, <<"loseContext", Tracked[k][1], Tracked[k][2]>>) # {}
        /\ \A i \in DOMAIN log :
               log[i][1] = "loseContext" =>
                   /\ \A f \in Positions(log, <<"set", "contextLost", TRUE>>) : f < i
                   /\ \A f \in Positions(log, <<"fire", "devicelost">>) : i < f

LossWithTargetWitness ==
    /\ lastCall[1] = "contextlost"
    /\ dev.targets # <<>>
    /\ Positions(log, <<"loseContext", "target", 1>>) # {}

\* the positions in l of the entries of the given kind
Kind(l, k) == {i \in DOMAIN l : l[i][1] = k}

InitializeSteps ==
    { "initializeExtensions", "initializeCapabilities", "initializeRenderState",
      "initializeContextCaches" }

\* C11: in the context-restored handler extensions, capabilities, baseline
\* render state and binding caches are re-initialized (each once, with all
\* their native calls) before any shader is sent restoreContext or any
\* buffer unlock; every tracked shader is sent restoreContext and every
\* tracked buffer unlock exactly once; 'devicerestored' is emitted once,
\* after all of that and after the lost flag has been cleared.
RestoreBroadcastOrdered ==
    lastCall[1] = "contextrestored" =>
        LET resent == Kind(log, "restoreContext") \cup Kind(log, "unlock")
            cleared == Positions(log, <<"set", "contextLost", FALSE>>)
            fired == Positions(log, <<"fire", "devicerestored">>)
        IN /\ ~dev.contextLost
           /\ \A s \in InitializeSteps :
                  /\ Cardinality(Positions(log, <<"call", s>>)) = 1
                  /\ \A i \in Positions(log, <<"call", s>>) : \A j \in resent : i < j
           /\ \A i \in Kind(log, "gl") :
                  log[i][2] \in {"enable", "disable", "pixelStorei", "blendFunc", "depthFunc"}
                      => \A j \in resent : i < j
           /\ \A k \in DOMAIN dev.shaders :
                  Cardinality(Positions(log, <<"restoreContext", "shader",
                                               dev.shaders[k][2]>>)) = 1
           /\ \A k \in DOMAIN dev.buffers :
                  Cardinality(Positions(log, <<"unlock", "buffer", dev.buffers[k][2]>>)) = 1
           /\ Cardinality(cleared) = 1
           /\ Cardinality(fired) = 1
           /\ \A f \in fired : (\A j \in resent : j < f) /\ (\A c \in cleared : c < f)

RestoreWithResourcesWitness ==
    /\ lastCall[1] = "contextrestored"
    /\ Positions(log, <<"restoreContext", "shader", 1>>) # {}
    /\ Positions(log, <<"unlock", "buffer", 3>>) # {}
    /\ Positions(log, <<"fire", "devicerestored">>) # {}

(***************************************************************************)
(* clear                                                                   *)
(***************************************************************************)
\* the options objects clear is called with: any flags or none, and the
\* values of all buffers, of the colour buffer only, or of none
ClearOptions ==
    { Assign(v, f) :
        v \in { <<>>, [color |-> <<1, 0, 0, 1>>],
                [color |-> <<1, 0, 0, 1>>, depth |-> 0, stencil |-> 1] },
        f \in { <<>> } \cup { [flags |-> n] : n \in 0 .. 7 } }

Clear == \E o \in ClearOptions : Op(<<"clear", o>>, clear(Cur, o))

InitClear ==
    /\ InitDevice({PlainProfile})
    /\ env = [limit |-> MaxCalls, profiles |-> {}, passes |-> {}, draws |-> {}]

NextClear == Clear \/ SetClearColor \/ SetDepthWrite \/ SetColorWrite

SpecClear == InitClear /\ [][NextClear]_vars

\* what C12 asks of a clear call with options o that left the effects l and
\* took the device from d0 to d1
ClearCommits(o, l, d0, d1) ==
    LET flags == IF Has(o, "flags") THEN o.flags ELSE 3
        color == IF Has(o, "color") THEN o.color ELSE <<0, 0, 0, 1>>
        depth == IF Has(o, "depth") THEN o.depth ELSE 1
        stencil == IF Has(o, "stencil") THEN o.stencil ELSE 0
        wantColor == flags % 2 = 1
        wantDepth == (flags \div 2) % 2 = 1
        wantStencil == (flags \div 4) % 2 = 1
        mask == (IF wantColor THEN {"COLOR"} ELSE {})
                \cup (IF wantDepth THEN {"DEPTH"} ELSE {})
                \cup (IF wantStencil THEN {"STENCIL"} ELSE {})
        Issued(name) == {i \in DOMAIN l : l[i][1] = "gl" /\ l[i][2] = name}
    IN flags # 0 =>
        /\ Cardinality(Issued("clear")) = 1
        /\ l[Len(l)] = <<"gl", "clear", mask>>
        /\ IF wantColor
           THEN /\ d1.clearColor = color
                /\ Cardinality(Issued("clearColor")) = IF d0.clearColor # color THEN 1 ELSE 0
                /\ \A i \in Issued("clearColor") : l[i] = <<"gl", "clearColor">> \o color
           ELSE Issued("clearColor") = {} /\ d1.clearColor = d0.clearColor
        /\ IF wantDepth
           THEN /\ d1.clearDepth = depth
                /\ Cardinality(Issued("clearDepth")) = IF d0.clearDepth # depth THEN 1 ELSE 0
                /\ \A i \in Issued("clearDepth") : l[i] = <<"gl", "clearDepth", depth>>
           ELSE Issued("clearDepth") = {} /\ d1.clearDepth = d0.clearDepth
        /\ IF wantStencil
           THEN /\ d1.clearStencil = stencil
                /\ Cardinality(Issued("clearStencil"))
                     = IF d0.clearStencil # stencil THEN 1 ELSE 0
                /\ \A i \in Issued("clearStencil") : l[i] = <<"gl", "clearStencil", stencil>>
           ELSE Issued("clearStencil") = {} /\ d1.clearStencil = d0.clearStencil

\* C12: for every non-zero flag combination clear issues exactly one native
\* clear, whose mask is the union of the native bits of exactly the
\* requested buffers, as its last native call; before it the clear value of
\* each requested buffer is committed (the cache updated, the native
\* clear-value call issued if and only if the value changes); omitted
\* options fall back to colour (0,0,0,1), depth 1, stencil 0, flags
\* COLOR|DEPTH.
ClearIssuesOneNativeClear ==
    [][ (lastCall'[1] = "clear" /\ hist'.ncalls = hist.ncalls + 1)
          => ClearCommits(lastCall'[2], log', dev, dev') ]_vars

ClearColorDepthWitness ==
    /\ lastCall = <<"clear", [color |-> <<1, 0, 0, 1>>, depth |-> 0, stencil |-> 1, flags |-> 3]>>
    /\ log = << <<"gl", "clearColor", 1, 0, 0, 1>>, <<"gl", "clearDepth", 0>>,
                <<"gl", "clear", {"COLOR", "DEPTH"}>> >>

(***************************************************************************)
(* draw                                                                    *)
(***************************************************************************)
DrawVariants == {"drawArrays", "drawElements", "drawArraysInstanced", "drawElementsInstanced"}

DrawWithoutShaderIsNoOp ==
    [][ (lastCall'[1] = "draw" /\ hist'.ncalls = hist.ncalls + 1 /\ dev.shader = Null)
          => (log' = <<>> /\ dev' = dev /\ res' = res /\ gl' = gl) ]_vars

DrawWithoutShaderWitness ==
    /\ lastCall[1] = "draw"
    /\ dev.shader = Null
    /\ dev.vertexBuffers # <<>>
    /\ dev.indexBuffer # Null

\* C15 as amended: after every draw call made with a shader active and
\* without keepBuffers, the queue of pending vertex buffers is empty, so the
\* buffers queued for such a draw are never part of the layout resolved for
\* a later draw.
ResolvingDrawEmptiesQueue ==
    (lastCall[1] = "draw" /\ dev.shader # Null /\ ~lastCall[2].keepBuffers)
        => dev.vertexBuffers = <<>>

QueuedBufferDrawnWitness ==
    /\ lastCall[1] = "draw"
    /\ dev.shader # Null
    /\ ~lastCall[2].keepBuffers
    /\ dev.vertexBuffers = <<>>
    /\ \E i \in DOMAIN log : log[i][1] = "gl" /\ log[i][2] = "vertexAttribPointer"

\* C15 as stated: after every draw call the queue of pending vertex buffers
\* is empty.
EveryDrawEmptiesQueue == lastCall[1] = "draw" => dev.vertexBuffers = <<>>

(***************************************************************************)
(* Vertex layouts                                                          *)
(***************************************************************************)
CreatesLayout(l) == \E i \in DOMAIN l : l[i] = <<"gl", "create", "vao">>

\* C16: a draw without keepBuffers whose queue holds the same ordered list
\* of vertex buffers as the queue of an earlier such draw of the same
\* context generation resolves to the layout object of that draw and
\* creates no layout object.
SameQueueSameLayout ==
    (lastCall[1] = "draw" /\ hist.resolved /\ hist.known) =>
        /\ dev.boundVao = hist.earlier
        /\ ~CreatesLayout(log)

\* C17: every layout object the keyed cache holds was built from a queue of
\* more than one vertex buffer (the cache is a map, so a key has one
\* object); the layout stored on a buffer was built from that buffer
\* alone, and a draw of a single buffer resolves to the layout built from
\* that buffer.
KeyedCacheHoldsNoSingleBufferLayout ==
    /\ \A k \in DOMAIN dev.vaoMap :
           dev.vaoMap[k] # Null =>
               /\ dev.vaoMap[k] \in DOMAIN hist.built
               /\ Len(hist.built[dev.vaoMap[k]]) # 1
    /\ \A b \in DOMAIN res.buffer :
           res.buffer[b].vao # Null =>
               /\ res.buffer[b].vao \in DOMAIN hist.built
               /\ hist.built[res.buffer[b].vao] = << <<"buffer", b>> >>
    /\ (hist.resolved /\ Len(hist.queue) = 1) =>
           /\ dev.boundVao \in DOMAIN hist.built
           /\ hist.built[dev.boundVao] = hist.queue

KeyedCacheHoldsLayoutWitness ==
    /\ lastCall[1] = "draw"
    /\ \E k \in DOMAIN dev.vaoMap :
           /\ dev.vaoMap[k] # Null
           /\ hist.built[dev.vaoMap[k]] = << <<"buffer", 1>>, <<"buffer", 2>> >>

\* the step of one call of the named method
Step(name) == lastCall'[1] = name /\ hist'.ncalls = hist.ncalls + 1

NativeBind(texture) ==
    <<"gl", "bindTexture", res.texture[texture[2]].glTarget, res.texture[texture[2]].glTexture>>

\* the table with the texture's native object in the entry of its target
\* kind on the unit
Recorded(texture, unit) ==
    [dev.textureUnits EXCEPT ![unit][targetToSlot(res.texture[texture[2]].glTarget)] =
        res.texture[texture[2]].glTexture]

\* C18: bindTexture issues a native bind exactly when the table's entry for
\* the active unit and the texture's target kind differs from the texture's
\* native object, and then holds that object in that entry; no other entry
\* changes, and a bind that finds the object in the entry issues nothing.
BindTextureBindsOnDifference ==
    [][Step("bindTexture") =>
          /\ log' = IF Recorded(lastCall'[2], dev.textureUnit) # dev.textureUnits
                    THEN << NativeBind(lastCall'[2]) >>
                    ELSE <<>>
          /\ dev'.textureUnits = Recorded(lastCall'[2], dev.textureUnit)
          /\ dev'.textureUnit = dev.textureUnit]_vars

BindTextureNativeWitness ==
    /\ lastCall[1] = "bindTexture"
    /\ res.texture[lastCall[2][2]].glTexture # Null
    /\ log = << NativeBind(lastCall[2]) >>

\* whether a run of effects, met with the given active unit and bindings of
\* the context, binds a texture object where it is bound already
RECURSIVE Rebinds(_, _, _)
Rebinds(l, unit, binding) ==
    IF l = <<>> THEN FALSE
    ELSE LET e == Head(l) IN
         IF e[1] = "gl" /\ e[2] = "activeTexture" THEN Rebinds(Tail(l), e[3], binding)
         ELSE IF e[1] = "gl" /\ e[2] = "bindTexture"
         THEN \/ e[4] # Null /\ binding[unit][targetToSlot(e[3])] = e[4]
              \/ Rebinds(Tail(l), unit, [binding EXCEPT ![unit][targetToSlot(e[3])] = e[4]])
         ELSE Rebinds(Tail(l), unit, binding)

\* C19 (as stated): no call binds a texture object natively to a unit and
\* target kind where the context has that object bound already.
NoRepeatedNativeBind ==
    [][~Rebinds(log', gl.activeTexture, gl.textureBinding)]_vars

\* C19: on a device without the Safari texture-unit workaround no call
\* binds a texture object natively to a unit and target kind where the
\* context has that object bound already.
NoRepeatedNativeBindOffSafari ==
    [][~dev.tempEnableSafariTextureUnitWorkaround =>
          ~Rebinds(log', gl.activeTexture, gl.textureBinding)]_vars

\* inside a pass, a request for a texture the context has bound issues no bind
BoundTextureRequestedInPassWitness ==
    /\ ~dev.tempEnableSafariTextureUnitWorkaround
    /\ dev.insideRenderPass
    /\ lastCall[1] \in {"bindTexture", "bindTextureOnUnit", "setTexture"}
    /\ res.texture[lastCall[2][2]].glTexture # Null
    /\ gl.textureBinding[IF lastCall[1] = "bindTexture" THEN dev.textureUnit ELSE lastCall[3]]
                        [targetToSlot(res.texture[lastCall[2][2]].glTarget)]
           = res.texture[lastCall[2][2]].glTexture
    /\ \A i \in DOMAIN log : log[i][2] # "bindTexture"

\* C20: bindTextureOnUnit on a unit whose entry holds the texture's native
\* object issues nothing and leaves active unit and table alone; otherwise
\* it makes the unit the active one (natively when it was not), binds the
\* object there and records it in exactly that entry.
BindTextureOnUnitActivatesOnDemand ==
    [][Step("bindTextureOnUnit") =>
          IF Recorded(lastCall'[2], lastCall'[3]) = dev.textureUnits
          THEN /\ log' = <<>>
               /\ dev'.textureUnit = dev.textureUnit
               /\ dev'.textureUnits = dev.textureUnits
          ELSE /\ log' = (IF dev.textureUnit # lastCall'[3]
                          THEN << <<"gl", "activeTexture", lastCall'[3]>> >> ELSE <<>>)
                         \o << NativeBind(lastCall'[2]) >>
               /\ dev'.textureUnit = lastCall'[3]
               /\ gl'.activeTexture = lastCall'[3]
               /\ dev'.textureUnits = Recorded(lastCall'[2], lastCall'[3])]_vars

BindOnOtherUnitWitness ==
    /\ lastCall[1] = "bindTextureOnUnit"
    /\ res.texture[lastCall[2][2]].glTexture # Null
    /\ log = << <<"gl", "activeTexture", lastCall[3]>>, NativeBind(lastCall[2]) >>

\* whether every parameter and data call of a run of effects, met with the
\* given active unit and bindings of the context, finds unit u active and
\* object h bound on it
RECURSIVE AppliedWhileBound(_, _, _, _, _, _)
AppliedWhileBound(l, unit, binding, u, slot, h) ==
    IF l = <<>> THEN TRUE
    ELSE LET e == Head(l) IN
         IF e[1] = "gl" /\ e[2] = "activeTexture"
         THEN AppliedWhileBound(Tail(l), e[3], binding, u, slot, h)
         ELSE IF e[1] = "gl" /\ e[2] = "bindTexture"
         THEN AppliedWhileBound(Tail(l), unit,
                                [binding EXCEPT ![unit][targetToSlot(e[3])] = e[4]], u, slot, h)
         ELSE IF e[1] = "gl" /\ e[2] \in {"texParameteri", "texParameterf", "texImage2D",
                                          "generateMipmap"}
         THEN /\ unit = u
              /\ binding[u][slot] = h
              /\ AppliedWhileBound(Tail(l), unit, binding, u, slot, h)
         ELSE AppliedWhileBound(Tail(l), unit, binding, u, slot, h)

Pending(t) == t.parameterFlags > 0 \/ t.needsUpload \/ t.needsMipmapsUpload

\* what setTexture(t, u), the call of the step, has established when it returns
SetTextureEstablished ==
    LET i == lastCall'[2][2]
        u == lastCall'[3]
        slot == targetToSlot(res.texture[i].glTarget)
        t == res'.texture[i]
    IN /\ t.glTexture # Null
       /\ dev'.textureUnits[u][slot] = t.glTexture
       /\ ~Pending(t)
       /\ Pending(res.texture[i]) =>
              /\ dev'.textureUnit = u
              /\ AppliedWhileBound(log', gl.activeTexture, gl.textureBinding, u, slot,
                                   t.glTexture)

\* C21 (as stated): after setTexture(t, u) the texture has a native handle,
\* the table holds it for (u, target kind), no flag of t is pending, and
\* when one was pending the parameters and the data were applied with unit
\* u active and t bound on it.
SetTextureLeavesTextureReady ==
    [][Step("setTexture") => SetTextureEstablished]_vars

\* C21: the same, for a call made while the context is not lost.
SetTextureLeavesTextureReadyOnLiveContext ==
    [][(Step("setTexture") /\ ~gl.lost) => SetTextureEstablished]_vars

\* a texture with a handle and a pending parameter set on a unit that was
\* not the active one
PendingTextureSetWitness ==
    /\ lastCall[1] = "setTexture"
    /\ ~gl.lost
    /\ dev.textureUnit = lastCall[3]
    /\ \E j \in DOMAIN log : log[j][2] = "activeTexture"
    /\ \E j \in DOMAIN log : log[j][2] = "texParameteri"
    /\ \A j \in DOMAIN log : log[j][2] # "create"

\* C22: setShader on a shader whose postLink has failed in this context
\* generation returns false without a link status query, and a failing
\* postLink leaves the shader marked failed; a setShader that returns false
\* leaves the active shader alone and issues no useProgram; setShader on the
\* active shader returns true and issues nothing.
FailedShaderStaysFailed ==
    [][Step("setShader") =>
          /\ lastCall'[2] \in hist.linkFailed =>
                 /\ Returned(log', "false")
                 /\ ~LinkQueried(log')
          /\ (LinkQueried(log') /\ Returned(log', "false")) =>
                 res'.shader[lastCall'[2][2]].failed
          /\ Returned(log', "false") =>
                 /\ dev'.shader = dev.shader
                 /\ \A i \in DOMAIN log' : log'[i][2] # "useProgram"
          /\ lastCall'[2] = dev.shader =>
                 /\ Returned(log', "true")
                 /\ Natives(log') = <<>>]_vars

\* a second setShader on a shader that failed to link on a live context,
\* with another shader active
FailedShaderSetAgainWitness ==
    /\ lastCall[1] = "setShader"
    /\ lastCall[2] \in hist.linkFailed
    /\ ~gl.lost
    /\ dev.shader # Null
    /\ log = << <<"return", "false">> >>

\* the cached stencil state of the two faces
StencilFuncCache(d) ==
    << <<d.stencilFuncFront, d.stencilRefFront, d.stencilMaskFront>>,
       <<d.stencilFuncBack, d.stencilRefBack, d.stencilMaskBack>> >>

StencilOpCache(d) ==
    << <<d.stencilFailFront, d.stencilZfailFront, d.stencilZpassFront>>,
       <<d.stencilFailBack, d.stencilZfailBack, d.stencilZpassBack>> >>

StencilWriteMaskCache(d) == <<d.stencilWriteMaskFront, d.stencilWriteMaskBack>>

\* C23: after setStencilFunc(f, r, m) the cache and the context hold
\* (f, r, m) for both faces, and the one native call is the combined
\* stencilFunc, issued exactly when the cached triple of a face differed;
\* likewise setStencilOperation for the operations (stencilOp) and for the
\* write mask (stencilMask).
CombinedStencilSettersSetBothFaces ==
    [][/\ Step("setStencilFunc") =>
              LET t == <<lastCall'[2], lastCall'[3], lastCall'[4]>>
                  n == <<Lookup(glComparison, t[1]), t[2], t[3]>>
              IN /\ StencilFuncCache(dev') = <<t, t>>
                 /\ gl'.stencilFunc = [FRONT |-> n, BACK |-> n]
                 /\ log' = IF StencilFuncCache(dev) # <<t, t>>
                           THEN << <<"gl", "stencilFunc">> \o n >> ELSE <<>>
       /\ Step("setStencilOperation") =>
              LET t == <<lastCall'[2], lastCall'[3], lastCall'[4]>>
                  n == <<Lookup(glStencilOp, t[1]), Lookup(glStencilOp, t[2]),
                         Lookup(glStencilOp, t[3])>>
                  w == lastCall'[5]
              IN /\ StencilOpCache(dev') = <<t, t>>
                 /\ StencilWriteMaskCache(dev') = <<w, w>>
                 /\ gl'.stencilOp = [FRONT |-> n, BACK |-> n]
                 /\ gl'.stencilMask = [FRONT |-> w, BACK |-> w]
                 /\ log' = (IF StencilOpCache(dev) # <<t, t>>
                            THEN << <<"gl", "stencilOp">> \o n >> ELSE <<>>)
                           \o (IF StencilWriteMaskCache(dev) # <<w, w>>
                               THEN << <<"gl", "stencilMask", w>> >> ELSE <<>>)]_vars

\* the combined setter called with the values one face holds already
CombinedAfterSeparateStencilWitness ==
    /\ lastCall = <<"setStencilFunc", FUNC_LESS, 1, MASK_FF>>
    /\ hist.previous = <<"setStencilFuncFront", FUNC_LESS, 1, MASK_FF>>
    /\ log = << <<"gl", "stencilFunc", "LESS", 1, MASK_FF>> >>
    /\ gl.stencilFunc.FRONT = gl.stencilFunc.BACK

\* the native names of blend factors and equations
Factor(e) == Lookup(glBlendFunction, e)

Equation(e) == Lookup(dev.glBlendEquation, e)

\* C24: a combined blend setter called right after its separate variant,
\* and a separate one called right after the combined one, issues its
\* native call whatever its arguments; after each of the four setters the
\* context holds the colour and alpha factors (equations) the call asked for.
BlendSettersSwitchModes ==
    [][/\ Step("setBlendFunction") =>
              LET c == <<"gl", "blendFunc", Factor(lastCall'[2]), Factor(lastCall'[3])>>
              IN /\ gl'.blendFunc = <<c[3], c[4], c[3], c[4]>>
                 /\ lastCall[1] = "setBlendFunctionSeparate" => log' = <<c>>
       /\ Step("setBlendFunctionSeparate") =>
              LET c == <<"gl", "blendFuncSeparate", Factor(lastCall'[2]), Factor(lastCall'[3]),
                         Factor(lastCall'[4]), Factor(lastCall'[5])>>
              IN /\ gl'.blendFunc = <<c[3], c[4], c[5], c[6]>>
                 /\ lastCall[1] = "setBlendFunction" => log' = <<c>>
       /\ Step("setBlendEquation") =>
              LET c == <<"gl", "blendEquation", Equation(lastCall'[2])>>
              IN /\ gl'.blendEquation = <<c[3], c[3]>>
                 /\ lastCall[1] = "setBlendEquationSeparate" => log' = <<c>>
       /\ Step("setBlendEquationSeparate") =>
              LET c == <<"gl", "blendEquationSeparate", Equation(lastCall'[2]),
                         Equation(lastCall'[3])>>
              IN /\ gl'.blendEquation = <<c[3], c[4]>>
                 /\ lastCall[1] = "setBlendEquation" => log' = <<c>>]_vars

\* the combined setter called with the cached colour factors right after
\* the separate one
CombinedAfterSeparateBlendWitness ==
    /\ lastCall = <<"setBlendFunction", BLENDMODE_SRC_ALPHA, BLENDMODE_ONE>>
    /\ hist.previous = <<"setBlendFunctionSeparate", BLENDMODE_SRC_ALPHA, BLENDMODE_ONE,
                         BLENDMODE_ONE, BLENDMODE_ZERO>>
    /\ log = << <<"gl", "blendFunc", "SRC_ALPHA", "ONE">> >>
    /\ gl.blendFunc = <<"SRC_ALPHA", "ONE", "SRC_ALPHA", "ONE">>

\* the buffers a pass asks to clear, by their native names
PassClears(p) ==
    (IF p.colorOps.clear THEN {"COLOR"} ELSE {})
    \cup (IF p.depthStencilOps.clearDepth THEN {"DEPTH"} ELSE {})
    \cup (IF p.depthStencilOps.clearStencil THEN {"STENCIL"} ELSE {})

\* the full extent of the target of a pass
PassExtent(p) ==
    IF p.renderTarget # Null
    THEN <<0, 0, res.target[p.renderTarget[2]].width, res.target[p.renderTarget[2]].height>>
    ELSE <<0, 0, dev.width, dev.height>>

ClearCalls(l) == SelectSeq(l, LAMBDA e : e[1] = "gl" /\ e[2] = "clear")

\* C25: startPass of a pass that asks for a clear leaves the cached and the
\* hardware viewport and scissor at the full extent of the pass's target
\* (of the back buffer without one) and issues one native clear, of the
\* buffers asked for and with the pass's clear values in place; a pass
\* that asks for none issues no clear and leaves viewport, scissor and
\* clear values as they were.
StartPassClearsFullTarget ==
    [][Step("startPass") =>
          LET p == lastCall'[2]
              e == PassExtent(p)
          IN IF PassClears(p) # {}
             THEN /\ <<dev'.vx, dev'.vy, dev'.vw, dev'.vh>> = e
                  /\ <<dev'.sx, dev'.sy, dev'.sw, dev'.sh>> = e
                  /\ gl'.viewport = e
                  /\ gl'.scissor = e
                  /\ ClearCalls(log') = << <<"gl", "clear", PassClears(p)>> >>
                  /\ Natives(log')[Len(Natives(log'))] = <<"gl", "clear", PassClears(p)>>
                  /\ p.colorOps.clear =>
                         /\ gl'.clearColor = p.colorOps.clearValue
                         /\ dev'.clearColor = p.colorOps.clearValue
                  /\ p.depthStencilOps.clearDepth =>
                         /\ gl'.clearDepth = p.depthStencilOps.clearDepthValue
                         /\ dev'.clearDepth = p.depthStencilOps.clearDepthValue
                  /\ p.depthStencilOps.clearStencil =>
                         /\ gl'.clearStencil = p.depthStencilOps.clearStencilValue
                         /\ dev'.clearStencil = p.depthStencilOps.clearStencilValue
             ELSE /\ ClearCalls(log') = <<>>
                  /\ \A f \in {"vx", "vy", "vw", "vh", "sx", "sy", "sw", "sh",
                               "clearColor", "clearDepth", "clearStencil"} : dev'[f] = dev[f]
                  /\ \A f \in {"viewport", "scissor", "clearColor", "clearDepth",
                               "clearStencil"} : gl'[f] = gl[f]]_vars

\* a clearing pass on the render target started with another viewport set
TargetClearedInPassWitness ==
    /\ lastCall = <<"startPass", TargetClearPass>>
    /\ hist.previous[1] = "setViewport"
    /\ gl.viewport = <<0, 0, 1, 1>>
    /\ \E i \in DOMAIN log : log[i] = <<"gl", "viewport", 0, 0, 1, 1>>
    /\ ClearCalls(log) = << <<"gl", "clear", {"COLOR", "STENCIL"}>> >>

\* C26: after endPass returns, no vertex-array object is bound on the native
\* context and the cached bound VAO is null, whatever sequence of
\* setVertexBuffer, draw, startPass, updateBegin and copyRenderTarget calls
\* came before
EndPassLeavesNoVertexArrayBound ==
    [][Step("endPass") => (gl'.vertexArray = Null /\ dev'.boundVao = Null)]_vars

\* a render target lacks the buffer: the back buffer has both, a render
\* target has depth as a depth texture or as an automatic depth buffer
LacksColor(t) == t # Null /\ res.target[t[2]].colorBuffer = Null

LacksDepth(t) ==
    t # Null /\ ~res.target[t[2]].depth /\ res.target[t[2]].depthBuffer = Null

Format(t, buffer) ==
    IF t = Null \/ res.target[t[2]][buffer] = Null THEN Null
    ELSE res.texture[res.target[t[2]][buffer][2]].format

\* the cases in which a copy is refused
CopyRefused(source, dest, color, depth) ==
    \/ depth /\ ~dev.webgl2
    \/ color /\ (LacksColor(source) \/ LacksColor(dest))
    \/ depth /\ (LacksDepth(source) \/ LacksDepth(dest))
    \/ color /\ source # Null /\ dest # Null
             /\ Format(source, "colorBuffer") # Format(dest, "colorBuffer")
    \/ depth /\ source # Null /\ dest # Null
             /\ Format(source, "depthBuffer") # Format(dest, "depthBuffer")

\* C30: copyRenderTarget returns false, issuing no native call and leaving
\* the current render target, the framebuffer binding and all cached state
\* unchanged, when a depth copy is requested on the legacy tier, when a colour
\* or depth buffer required for the copy is missing on source or dest, or
\* when source and dest buffer formats differ; in every other case it
\* returns true
CopyRenderTargetReturnContract ==
    [][Step("copyRenderTarget") =>
        IF CopyRefused(lastCall'[2], lastCall'[3], lastCall'[4], lastCall'[5])
        THEN Returned(log', "false") /\ Kind(log', "gl") = {} /\ dev' = dev /\ gl' = gl
        ELSE Returned(log', "true")]_vars

\* a refused copy leaves the device as it was (the part of C30 the code keeps)
RefusedCopyChangesNothing ==
    [][(Step("copyRenderTarget") /\ Returned(log', "false"))
        => (Kind(log', "gl") = {} /\ dev' = dev /\ gl' = gl /\ res' = res)]_vars

\* the shader of a draw, its uniforms and samplers before the draw
Uniforms == res.shader[dev.shader[2]].uniforms

Samplers == res.shader[dev.shader[2]].samplers

Drawing == Step("draw") /\ dev.shader # Null

ScopeOf(u) == res.scope[u.scopeId[2]]

Stale(u) == u.version # ScopeOf(u).version

\* the commit function of uniform i was invoked
Invoked(l, i) == \E j \in Kind(l, "commit") : l[j][3] = i

\* C27: in draw, a uniform's commit function is invoked iff the uniform's
\* version stamp differs from the current version of its scope variable and
\* the scope value is non-null; after draw every declared uniform's stamp
\* equals its scope variable's version, so a draw that follows a draw with
\* no scope change between them commits no uniform
DrawCommitsStaleUniforms ==
    [][Drawing =>
        /\ \A i \in DOMAIN Uniforms :
              /\ Invoked(log', i) <=> (Stale(Uniforms[i]) /\ ScopeOf(Uniforms[i]).value # Null)
              /\ res'.shader[dev.shader[2]].uniforms[i].version
                    = res'.scope[Uniforms[i].scopeId[2]].version
        /\ lastCall[1] = "draw" => Kind(log', "commit") = {}]_vars

\* a draw has invoked the commit functions of some uniforms and has passed
\* over a stale uniform whose scope value is null
StaleUniformsCommittedWitness ==
    /\ lastCall[1] = "draw" /\ dev.shader # Null
    /\ hist.previous[1] = "setValue"
    /\ Kind(log, "commit") # {}
    /\ \E i \in DOMAIN Uniforms : ~Invoked(log, i) /\ ScopeOf(Uniforms[i]).value = Null

\* the native uniform call of a uniform was issued
Issued(l, u) ==
    \E j \in Kind(l, "gl") : l[j][2] = uniformCall[u.dataType] /\ l[j][3] = u.locationId

Committable(u) == Stale(u) /\ ScopeOf(u).value # Null

\* C28 as stated: when a uniform's version stamp is stale, draw re-issues the
\* native uniform call for every vector-typed and matrix-typed uniform
\* whether or not the new value equals the committed one; only the scalar
\* commit functions short-circuit on value equality
VectorsAndMatricesAlwaysReissued ==
    [][Drawing =>
        \A i \in DOMAIN Uniforms :
            Committable(Uniforms[i]) =>
                IF Uniforms[i].dataType \in ScalarTypes
                THEN Issued(log', Uniforms[i])
                        <=> ScopeOf(Uniforms[i]).value # Uniforms[i].value
                ELSE Issued(log', Uniforms[i])]_vars

\* C28: when a uniform's version stamp is stale, draw re-issues the native
\* uniform call for every matrix-typed uniform whether or not the new value
\* equals the committed one; only the scalar and the vector commit functions
\* short-circuit on value equality
MatricesAlwaysReissued ==
    [][Drawing =>
        \A i \in DOMAIN Uniforms :
            Committable(Uniforms[i]) =>
                IF Uniforms[i].dataType \in ScalarTypes \cup VectorTypes
                THEN Issued(log', Uniforms[i])
                        <=> ScopeOf(Uniforms[i]).value # Uniforms[i].value
                ELSE Issued(log', Uniforms[i])]_vars

\* a draw has invoked the commit functions of a vector and of a matrix whose
\* values are the committed ones: the matrix was issued, the vector was not
EqualValuesCommittedWitness ==
    /\ lastCall[1] = "draw" /\ dev.shader # Null
    /\ \E i, k \in DOMAIN Uniforms :
          /\ Uniforms[i].dataType \in VectorTypes /\ Uniforms[k].dataType \in MatrixTypes
          /\ Invoked(log, i) /\ ~Issued(log, Uniforms[i])
          /\ Invoked(log, k) /\ Issued(log, Uniforms[k])
          /\ hist.previous = <<"setValue", Uniforms[k].scopeId, ScopeOf(Uniforms[k]).value>>

\* the texture units the samplers from sampler i on take, from unit
\* textureUnit: one for a set texture sampler, one for each element of an
\* array sampler, none for a sampler with no value
RECURSIVE UnitsOf(_, _, _)
UnitsOf(samplers, i, textureUnit) ==
    IF i > Len(samplers) THEN <<>>
    ELSE LET value == res.scope[samplers[i].scopeId[2]].value
             n == IF samplers[i].isArray THEN Len(value)
                  ELSE IF value = Null THEN 0 ELSE 1
         IN <<[k \in 1 .. n |-> textureUnit + k - 1]>> \o UnitsOf(samplers, i + 1, textureUnit + n)

TexturesOf(sampler) ==
    LET value == res.scope[sampler.scopeId[2]].value IN
    IF sampler.isArray THEN value ELSE IF value = Null THEN <<>> ELSE <<value>>

\* the texture is the one the device has on the unit, and the context too
BoundOn(d, g, r, texture, unit) ==
    LET t == r.texture[texture[2]] IN
    /\ t.glTexture # Null
    /\ d.textureUnits[unit][targetToSlot(t.glTarget)] = t.glTexture
    /\ g.textureBinding[unit][targetToSlot(t.glTarget)] = t.glTexture

\* the unit, or the units, of sampler i were committed to the shader
SamplerIssued(l, i) ==
    \E j \in Kind(l, "gl") : l[j][2] \in {"uniform1i", "uniform1iv"} /\ l[j][3] = i

\* the units differ from the ones last committed for the sampler
UnitsDiffer(sampler, units) ==
    IF sampler.isArray THEN sampler.array # units
    ELSE units # <<>> /\ sampler.slot # units[1]

SamplersBoundInOrder ==
    LET units == UnitsOf(Samplers, 1, 0) IN
    \A i \in DOMAIN Samplers :
        \A k \in DOMAIN units[i] :
            BoundOn(dev', gl', res', TexturesOf(Samplers[i])[k], units[i][k])

\* C29 as stated: in draw, the textures of the shader's set samplers are
\* bound to consecutive texture units starting at 0 in declaration order (a
\* sampler with no value takes no unit, an array sampler one unit per
\* element), and for each sampler the unit index is committed to the shader
\* with a native call only when it differs from the index last committed
\* for that sampler
SamplerUnitsCommittedOnChange ==
    [][Drawing =>
        /\ SamplersBoundInOrder
        /\ \A i \in DOMAIN Samplers :
              SamplerIssued(log', i)
                  <=> UnitsDiffer(Samplers[i], UnitsOf(Samplers, 1, 0)[i])]_vars

\* C29: in draw, the textures of the shader's set samplers are bound to
\* consecutive texture units starting at 0 in declaration order (a sampler
\* with no value takes no unit, an array sampler one unit per element), and
\* for each non-array sampler the unit index is committed to the shader with
\* a native call only when it differs from the index last committed for that
\* sampler
TextureSamplerUnitsCommittedOnChange ==
    [][Drawing =>
        /\ SamplersBoundInOrder
        /\ \A i \in DOMAIN Samplers :
              ~Samplers[i].isArray =>
                  (SamplerIssued(log', i)
                      <=> UnitsDiffer(Samplers[i], UnitsOf(Samplers, 1, 0)[i]))]_vars

\* a draw after a draw and a change of a sampler: a texture sampler kept its
\* unit and was not committed, another moved to a new unit and was, and an
\* array sampler of two textures took two units
SamplerMovedWitness ==
    /\ lastCall[1] = "draw" /\ dev.shader # Null
    /\ hist.previous[1] = "setValue"
    /\ \E i, k, a \in DOMAIN Samplers :
          /\ ~Samplers[i].isArray /\ Samplers[i].slot # -1 /\ ~SamplerIssued(log, i)
          /\ ~Samplers[k].isArray /\ Samplers[k].slot > 0 /\ SamplerIssued(log, k)
          /\ Samplers[a].isArray /\ Len(Samplers[a].array) > 1

\* C31: copyRenderTarget accepts an omitted source and an omitted dest and
\* returns a boolean for every combination of present or omitted source and
\* dest, colour and depth flags and context tier, without dereferencing the
\* omitted render target
CopyRenderTargetReturnsBoolean ==
    [][Step("copyRenderTarget") =>
        /\ Returned(log', "true") \/ Returned(log', "false")
        /\ Kind(log', "throw") = {}]_vars

\* C32: a missing extension never makes a capability query fail: on a
\* legacy-tier device without the half-float texture extension reading
\* textureHalfFloatUpdatable yields false, and on a device where float
\* textures are not renderable reading textureFloatHighPrecision yields false
\* without running the render test; neither throws
CapabilityQueriesNeverThrow ==
    [][/\ (Step("textureHalfFloatUpdatable") /\ ~dev.webgl2 /\ ~dev.extTextureHalfFloat)
            => (Returned(log', "false") /\ Kind(log', "throw") = {})
       /\ (Step("textureFloatHighPrecision") /\ ~dev.textureFloatRenderable)
            => (Returned(log', "false") /\ Kind(log', "throw") = {}
                /\ Kind(log', "call") = {} /\ Kind(log', "gl") = {})]_vars

\* the part of C32 about textureFloatHighPrecision alone
FloatPrecisionQueryDegrades ==
    [][(Step("textureFloatHighPrecision") /\ ~dev.textureFloatRenderable)
            => (Returned(log', "false") /\ Kind(log', "throw") = {}
                /\ Kind(log', "call") = {} /\ Kind(log', "gl") = {})]_vars

\* C33: for every sequence of setCullMode calls interleaved with context
\* loss and restore events, after setCullMode(m) returns the hardware has
\* face culling disabled if m is CULLFACE_NONE, and otherwise has face
\* culling enabled with culled face m
SetCullModeReachesHardware ==
    [][(Step("setCullMode") /\ ~gl.lost) =>
        IF lastCall'[2] = CULLFACE_NONE THEN ~gl'.cap["CULL_FACE"]
        ELSE gl'.cap["CULL_FACE"] /\ gl'.cullFace = Lookup(glCull, lastCall'[2])]_vars

\* C34: initializeRenderState assigns every cached field that a setter's
\* change test consults, the cached cull face and the viewport and scissor
\* rectangles among them, and pairs each assignment with a native call of
\* the same value, so that right after construction and after every restore
\* the cache and the hardware agree
InitializedCacheAgreesWithHardware ==
    lastCall[1] \in {"constructor", "contextrestored"} =>
        /\ Field(dev, "cullFace") = gl.cullFace
        /\ <<dev.vx, dev.vy, dev.vw, dev.vh>> = gl.viewport
        /\ <<dev.sx, dev.sy, dev.sw, dev.sh>> = gl.scissor
        /\ \E i \in Kind(log, "gl") : log[i][2] = "viewport"
        /\ \E i \in Kind(log, "gl") : log[i][2] = "scissor"

\* the cached fields and the hardware state a clear may change
ClearCached ==
    { "clearColor", "clearDepth", "clearStencil",
      "writeRed", "writeGreen", "writeBlue", "writeAlpha", "depthWrite" }

ClearNative == {"clearColor", "clearDepth", "clearStencil", "colorMask", "depthMask"}

ColorWrite(d) == <<d.writeRed, d.writeGreen, d.writeBlue, d.writeAlpha>>

\* what C35 asks of a clear call with options o
ClearTouches(o) ==
    LET flags == IF Has(o, "flags") THEN o.flags ELSE dev.defaultClearOptions.flags
        wantColor == Bit(flags, CLEARFLAG_COLOR)
        wantDepth == Bit(flags, CLEARFLAG_DEPTH)
        wantStencil == Bit(flags, CLEARFLAG_STENCIL)
    IN
    /\ DOMAIN dev' = DOMAIN dev
    /\ Fields(dev', DOMAIN dev \ ClearCached) = Fields(dev, DOMAIN dev \ ClearCached)
    /\ Fields(gl', DOMAIN gl \ ClearNative) = Fields(gl, DOMAIN gl \ ClearNative)
    /\ res' = res
    /\ IF wantColor
       THEN ColorWrite(dev') = <<TRUE, TRUE, TRUE, TRUE>>
            /\ (~gl.lost => gl'.colorMask = <<TRUE, TRUE, TRUE, TRUE>>)
       ELSE /\ ColorWrite(dev') = ColorWrite(dev) /\ gl'.colorMask = gl.colorMask
            /\ dev'.clearColor = dev.clearColor /\ gl'.clearColor = gl.clearColor
    /\ IF wantDepth
       THEN dev'.depthWrite /\ (~gl.lost => gl'.depthMask)
       ELSE /\ dev'.depthWrite = dev.depthWrite /\ gl'.depthMask = gl.depthMask
            /\ dev'.clearDepth = dev.clearDepth /\ gl'.clearDepth = gl.clearDepth
    /\ ~wantStencil =>
            dev'.clearStencil = dev.clearStencil /\ gl'.clearStencil = gl.clearStencil
    /\ flags = 0 => (log' = <<>> /\ dev' = dev /\ gl' = gl)

\* C35: clear changes only the clear value of each requested buffer, the
\* colour write mask (forced to all-true iff the colour flag is set) and the
\* depth write flag (forced to true iff the depth flag is set); the forced
\* values persist after clear returns; clear values and write masks of
\* buffers whose flag is absent are unchanged; clear with flags = 0 issues
\* no native call and changes no cached state
ClearChangesOnlyRequestedBuffers ==
    [][Step("clear") => ClearTouches(lastCall'[2])]_vars

\* a colour clear after the colour write mask was narrowed: the mask is
\* all-true afterwards, on the device and on the hardware
ClearForcedColorWriteWitness ==
    /\ lastCall[1] = "clear" /\ Has(lastCall[2], "flags")
    /\ Bit(lastCall[2].flags, CLEARFLAG_COLOR) /\ ~Bit(lastCall[2].flags, CLEARFLAG_DEPTH)
    /\ hist.previous = <<"setColorWrite", FALSE, FALSE, FALSE, TRUE>>
    /\ ColorWrite(dev) = <<TRUE, TRUE, TRUE, TRUE>>
    /\ gl.colorMask = <<TRUE, TRUE, TRUE, TRUE>>

\* C36: two pending vertex-buffer queues that differ as ordered lists of
\* (buffer id, format hash) pairs never resolve to the same cached layout
\* object: the key built by createVertexArray is injective on ordered lists
\* of two or more buffers
DifferentQueuesDifferentLayouts ==
    \A q1, q2 \in DOMAIN hist.layouts :
        (Len(q1) > 1 /\ Len(q2) > 1 /\ q1 # q2) => hist.layouts[q1] # hist.layouts[q2]

\* C37: every layout object that setBuffers binds is either owned by a
\* vertex buffer or stored in the keyed cache, so the number of layout
\* objects created never exceeds the number of distinct buffer lists used;
\* a draw issued with an empty pending queue creates no new layout object
BoundLayoutsAreOwnedOrCached ==
    /\ hist.resolved =>
           \/ \E b \in DOMAIN res.buffer : res.buffer[b].vao = dev.boundVao
           \/ \E k \in DOMAIN dev.vaoMap : dev.vaoMap[k] = dev.boundVao
    /\ Cardinality(DOMAIN hist.built) <= Cardinality(DOMAIN hist.layouts)
    /\ (hist.resolved /\ hist.queue = <<>>) => ~CreatesLayout(log)

\* C38: after any sequence of startPass / updateBegin calls and context
\* loss and restore cycles, each render target appears at most once in the
\* device's tracked target list, so each loss event delivers loseContext to
\* it exactly once
TargetsTrackedOnce ==
    /\ \A i, j \in DOMAIN dev.targets : dev.targets[i] = dev.targets[j] => i = j
    /\ lastCall[1] = "contextlost" =>
           \A t \in DOMAIN res.target : Count(log, <<"loseContext", "target", t>>) <= 1

\* C39: after any sequence of setFramebuffer, updateBegin, startPass and
\* copyRenderTarget calls the cached activeFramebuffer is the framebuffer
\* bound on the native context, so setFramebuffer never skips a bind the
\* hardware needs; a successful blit-path copyRenderTarget leaves cache and
\* hardware in agreement
ActiveFramebufferIsBound ==
    /\ dev.activeFramebuffer = gl.drawFramebuffer
    /\ dev.activeFramebuffer = gl.readFramebuffer

\* the colour buffer of the device's render target, when endPass generates
\* its mipmaps
MipmapBuffer(p) ==
    LET target == dev.renderTarget
        colorBuffer == IF target = Null THEN Null ELSE res.target[target[2]].colorBuffer
    IN IF /\ p.colorOps.mipmaps
          /\ colorBuffer # Null
          /\ res.texture[colorBuffer[2]].glTexture # Null
          /\ res.texture[colorBuffer[2]].mipmaps
          /\ (res.texture[colorBuffer[2]].pot \/ dev.webgl2)
       THEN colorBuffer ELSE Null

GeneratesMipmap(l) == {i \in Kind(l, "gl") : l[i][2] = "generateMipmap"}

LastUnit == dev.maxCombinedTextures - 1

MipmapsRefusedWitness ==
    /\ lastCall = <<"endPass", Pass(<<"target", 2>>, FALSE, FALSE, FALSE)>>
    /\ ~dev.webgl2
    /\ dev.renderTarget = <<"target", 2>>
    /\ res.texture[2].glTexture # Null
    /\ GeneratesMipmap(log) = {}
====
